---------------------------- MODULE Spec2Model ----------------------------
(***************************************************************************)
(* geode-piano: the transparent pin driver (src/src/pins.rs), the key      *)
(* matrix scanner and pedal monitor (src/src/matrix.rs), the MIDI queue    *)
(* (src/src/midi/mod.rs) and the USB transport (src/src/usb.rs).           *)
(*                                                                         *)
(* Machine words (u16, u64 bit masks) are modelled as the set of their 1   *)
(* bit positions, so that shifts, masks and narrowing casts are computed   *)
(* bit by bit.  Durations (u64 microseconds) are modelled as four 16-bit   *)
(* limbs, most significant first, because they exceed the integers TLC     *)
(* computes with.                                                          *)
(***************************************************************************)
EXTENDS Integers, Sequences, FiniteSets, TLC

VARIABLES
    tp,          \* the TransparentPins struct: policy flag and derived counts
    ext_dir,     \* per extender: local pins configured as OUTPUT (IODIR)
    ext_pullup,  \* per extender: local pins with the pull-up enabled (GPPU)
    ext_olat,    \* per extender: local pins whose output latch is high
    pins_dir,    \* on-board pins (index into TransparentPins::pins) set as output
    pins_pull,   \* on-board pins: "None" | "Up" | "Down"
    pins_level,  \* on-board pins whose output level is high
    written,     \* the mask given to the last write_all, if it succeeded
    last,        \* the last driver call: its arguments and its outcome
    nops,        \* number of driver calls made so far
    overflow_checks, \* whether the build traps integer overflow (debug) or wraps
    vel,         \* the velocity computation of the scanner's N2 branch
    matrix,      \* the KeyMatrix (col_pins, row_pins, keymap) and scan's Config
    scan,        \* the scanner task: where it is in scan, and its locals
    note_first,  \* scan's note_first array: first-touch timestamp per note
    note_on,     \* scan's note_on array: sounding timestamp per note
    now,         \* Instant::now(), in microseconds
    ped,         \* the pedal task: where it is in pedal, and its arguments
    pedal_pin,   \* whether the pedal's input pin reads high
    queue,       \* MIDI_QUEUE: the messages it holds, oldest first
    enqueued,    \* every message MIDI_QUEUE has accepted, in order
    handed,      \* how many times send() has been called
    usb,         \* the transport (midi_fut of usb_task): where it is, its msg
    enabled,     \* whether the host has the MIDI endpoint enabled
    received,    \* every message receive() has returned, in order
    wire,        \* every packet write_packet has put on the endpoint, in order
    pending,     \* per task: the message its suspended send() is holding
    mon,         \* per note: the phase of its key as the reads so far tell it
    evs,         \* per note: the messages scan handed over since its key went down
    bus          \* the I2C bus: the driver call under way, its handles and transfers

\* the scanner, the pedal monitor, the queue and the transport
pipeVars == <<matrix, scan, note_first, note_on, now, ped, pedal_pin, queue,
              enqueued, handed, usb, enabled, received, wire, pending, mon, evs,
              bus>>

vars == <<tp, ext_dir, ext_pullup, ext_olat, pins_dir, pins_pull, pins_level,
          written, last, nops, overflow_checks, vel, pipeVars>>

\* the hardware registers behind the driver
hwVars == <<ext_dir, ext_pullup, ext_olat, pins_dir, pins_pull, pins_level>>

\* the driver, its registers and its call records
pinVars == <<tp, hwVars, written, last, nops, overflow_checks, vel>>

-----------------------------------------------------------------------------
(* Program constants of pins.rs *)

PINS_PER_EXTENDER == 16
N_PIN_EXTENDERS == 2
N_REGULAR_PINS == 12
N_EXTENDED_PINS == PINS_PER_EXTENDER * N_PIN_EXTENDERS
UNSAFE_PER_EXTENDER == 2
PORT_A == 0
PORT_B == 8

(* Bounds of the model *)

\* Longest sequence of driver calls explored after construction.
MaxOps == 2
\* Durations are sampled every DurStep microseconds up to MaxDurK steps.
DurStep == 4000
MaxDurK == 64
\* Most messages handed to the queue in one run.
MaxMsgs == 4
\* Most scan cycles in one run.
MaxCycles == 3

U8 == 0 .. 255
Extenders == 0 .. (N_PIN_EXTENDERS - 1)
RegularPins == 0 .. (N_REGULAR_PINS - 1)
\* Physical pin numbers, in get_pin's numbering.
PhysPins == 0 .. (N_EXTENDED_PINS + N_REGULAR_PINS - 1)
Pulls == {"None", "Up", "Down"}

-----------------------------------------------------------------------------
(* Words as sets of bit positions *)

Shr(w, k) == {b - k : b \in {x \in w : x >= k}}
Shl(w, k) == {b + k : b \in w}
\* `as u16`, `as u64`: narrowing keeps the low bits
AsU16(w) == {b \in w : b < 16}
AsU64(w) == {b \in w : b < 64}
\* (1 << n) - 1
LowMask(n) == 0 .. (n - 1)

-----------------------------------------------------------------------------
(* pins.rs: address translation *)

\* u8 + u8.  An overflowing add panics when the build checks overflow and
\* wraps otherwise.
AddU8(a, b) ==
    IF a + b > 255
    THEN IF overflow_checks
         THEN [panic |-> TRUE, pin |-> 0]
         ELSE [panic |-> FALSE, pin |-> (a + b) % 256]
    ELSE [panic |-> FALSE, pin |-> a + b]

\* addr_to_pin with the extender stride taken from the usable count: the
\* second extender's addresses land on the first extender's pins.
addr_to_pin_usable_stride(t, addr) ==
    IF t.disable_unsafe_pins
    THEN IF addr >= t.usable_pins_per_extender * N_PIN_EXTENDERS
         THEN AddU8(addr, UNSAFE_PER_EXTENDER * N_PIN_EXTENDERS)
         ELSE LET div == addr \div t.usable_pins_per_extender
                  m == addr % t.usable_pins_per_extender
                  offset == IF m >= PORT_A + 7 THEN 1 ELSE 0
              IN  [panic |-> FALSE,
                   pin |-> (div * t.usable_pins_per_extender + m + offset) % 256]
    ELSE [panic |-> FALSE, pin |-> addr]

\* addr_to_pin with the GPA7 offset starting one address late.
addr_to_pin_late_offset(t, addr) ==
    IF t.disable_unsafe_pins
    THEN IF addr >= t.usable_pins_per_extender * N_PIN_EXTENDERS
         THEN AddU8(addr, UNSAFE_PER_EXTENDER * N_PIN_EXTENDERS)
         ELSE LET div == addr \div t.usable_pins_per_extender
                  m == addr % t.usable_pins_per_extender
                  offset == IF m > PORT_A + 7 THEN 1 ELSE 0
              IN  [panic |-> FALSE,
                   pin |-> (div * PINS_PER_EXTENDER + m + offset) % 256]
    ELSE [panic |-> FALSE, pin |-> addr]

\* addr_to_pin leaving GPA7 in the usable range.
addr_to_pin_no_offset(t, addr) ==
    IF t.disable_unsafe_pins
    THEN IF addr >= t.usable_pins_per_extender * N_PIN_EXTENDERS
         THEN AddU8(addr, UNSAFE_PER_EXTENDER * N_PIN_EXTENDERS)
         ELSE LET div == addr \div t.usable_pins_per_extender
                  m == addr % t.usable_pins_per_extender
              IN  [panic |-> FALSE,
                   pin |-> (div * PINS_PER_EXTENDER + m) % 256]
    ELSE [panic |-> FALSE, pin |-> addr]

\* TransparentPins::addr_to_pin, for a driver `t`
addr_to_pin_of(t, addr) ==
    IF t.disable_unsafe_pins
    THEN IF addr >= t.usable_pins_per_extender * N_PIN_EXTENDERS
         THEN AddU8(addr, UNSAFE_PER_EXTENDER * N_PIN_EXTENDERS)
         ELSE LET div == addr \div t.usable_pins_per_extender
                  m == addr % t.usable_pins_per_extender
                  offset == IF m >= PORT_A + 7 THEN 1 ELSE 0
              IN  [panic |-> FALSE,
                   pin |-> (div * PINS_PER_EXTENDER + m + offset) % 256]
    ELSE [panic |-> FALSE, pin |-> addr]

\* TransparentPins::get_pin: by pin number, not by transparent address
get_pin(pin) ==
    IF pin >= N_EXTENDED_PINS + N_REGULAR_PINS
    THEN [kind |-> "InvalidPin", pin |-> pin]
    ELSE IF pin < N_EXTENDED_PINS
         THEN [kind |-> "Extended",
               ext_id |-> pin \div PINS_PER_EXTENDER,
               loc_pin |-> pin % PINS_PER_EXTENDER]
         ELSE [kind |-> "Onboard", idx |-> pin - N_EXTENDED_PINS]

\* `let pin_n = self.addr_to_pin(addr); let pin = self.get_pin(pin_n)?;`
\* as set_pull, set_input and set_output begin
Resolve(t, addr) ==
    LET pin_n == addr_to_pin_of(t, addr)
    IN  IF pin_n.panic THEN [kind |-> "Panic"] ELSE get_pin(pin_n.pin)

\* The physical pin number a resolved pin stands for (get_pin's numbering).
PhysOf(p) ==
    IF p.kind = "Extended" THEN p.ext_id * PINS_PER_EXTENDER + p.loc_pin
    ELSE N_EXTENDED_PINS + p.idx

-----------------------------------------------------------------------------
(* pins.rs: construction *)

\* TransparentPins::new.  The unsafe pins are set as outputs while the flag
\* is still false, so their addresses are raw pin numbers.
new(disable_unsafe_pins) ==
    IF disable_unsafe_pins
    THEN [disable_unsafe_pins |-> TRUE,
          usable_pins_per_extender |-> PINS_PER_EXTENDER - UNSAFE_PER_EXTENDER,
          usable_extended_pins |->
              N_PIN_EXTENDERS * (PINS_PER_EXTENDER - UNSAFE_PER_EXTENDER),
          n_total_pins |->
              N_PIN_EXTENDERS * (PINS_PER_EXTENDER - UNSAFE_PER_EXTENDER)
                  + N_REGULAR_PINS]
    ELSE [disable_unsafe_pins |-> FALSE,
          usable_pins_per_extender |-> PINS_PER_EXTENDER,
          usable_extended_pins |-> N_EXTENDED_PINS,
          n_total_pins |-> N_EXTENDED_PINS + N_REGULAR_PINS]

\* A call record: every driver call leaves one in `last`.
Call(op, addr, pull, val, result, target, handles, ret, levels) ==
    [op |-> op, addr |-> addr, pull |-> pull, val |-> val, result |-> result,
     target |-> target, handles |-> handles, ret |-> ret, levels |-> levels]

NoTarget == [kind |-> "None"]

\* Effect of pin_mode(loc_pin, mode) / set_as_input / set_as_output on the
\* direction registers, for a pin resolved by get_pin.
ExtDirAfter(dir, pin, out) ==
    IF pin.kind = "Extended"
    THEN [dir EXCEPT ![pin.ext_id] =
              IF out THEN @ \cup {pin.loc_pin} ELSE @ \ {pin.loc_pin}]
    ELSE dir

PinsDirAfter(dir, pin, out) ==
    IF pin.kind = "Onboard"
    THEN IF out THEN dir \cup {pin.idx} ELSE dir \ {pin.idx}
    ELSE dir

\* The addresses `new` hands to set_output, in call order.
UnsafeAddrs ==
    [k \in 1 .. (UNSAFE_PER_EXTENDER * N_PIN_EXTENDERS) |->
        ((k - 1) \div UNSAFE_PER_EXTENDER) * PINS_PER_EXTENDER
            + (IF (k - 1) % UNSAFE_PER_EXTENDER = 0 THEN PORT_A ELSE PORT_B) + 7]

\* The extender direction registers after the first k set_output calls of
\* `new`, all made with the flag still false.
RECURSIVE NewExtDir(_)
NewExtDir(k) ==
    IF k = 0 THEN [i \in Extenders |-> {}]
    ELSE ExtDirAfter(NewExtDir(k - 1),
                     Resolve(new(FALSE), UnsafeAddrs[k]), TRUE)

InitPins ==
    /\ overflow_checks \in BOOLEAN
    /\ \E disable \in BOOLEAN :
          /\ tp = new(disable)
          /\ ext_dir = IF disable THEN NewExtDir(Len(UnsafeAddrs))
                       ELSE NewExtDir(0)
    /\ ext_pullup = [i \in Extenders |-> {}]
    /\ ext_olat = [i \in Extenders |-> {}]
    /\ pins_dir = {}
    /\ pins_pull = [p \in RegularPins |-> "None"]
    /\ pins_level = {}
    /\ written = [some |-> FALSE, val |-> {}]
    /\ last = Call("new", 0, "None", {}, "Ok", NoTarget, 0, {}, {})
    /\ nops = 0


-----------------------------------------------------------------------------
(* pins.rs: per-pin configuration *)

\* A call is made only while the task is alive: a panic ends it.
CanCall == last.result # "Panic"

\* Outcome of set_input / set_output for a resolved pin; bus_ok tells whether
\* the I2C transactions of the call succeed.
ModeResult(pin, bus_ok) ==
    CASE pin.kind = "Panic" -> "Panic"
      [] pin.kind = "InvalidPin" -> "InvalidPin"
      [] pin.kind = "Extended" /\ ~bus_ok -> "ExtenderError"
      [] OTHER -> "Ok"

\* extender!(self, ext_id) invocations made by a per-pin call
Handles(pin) == IF pin.kind = "Extended" THEN 1 ELSE 0

SetMode(op, addr, out) ==
    LET pin == Resolve(tp, addr)
    IN  \E bus_ok \in BOOLEAN :
          /\ pin.kind = "Extended" \/ bus_ok
          /\ ext_dir' = IF bus_ok THEN ExtDirAfter(ext_dir, pin, out)
                        ELSE ext_dir
          /\ pins_dir' = PinsDirAfter(pins_dir, pin, out)
          /\ last' = Call(op, addr, "None", {}, ModeResult(pin, bus_ok), pin,
                          Handles(pin), {}, {})

\* TransparentPins::set_input
set_input(addr) ==
    /\ CanCall
    /\ SetMode("set_input", addr, FALSE)
    /\ nops' = nops + 1
    /\ UNCHANGED <<tp, ext_pullup, ext_olat, pins_pull, pins_level, written,
                   overflow_checks, vel, pipeVars>>

\* TransparentPins::set_output
set_output(addr) ==
    /\ CanCall
    /\ SetMode("set_output", addr, TRUE)
    /\ nops' = nops + 1
    /\ UNCHANGED <<tp, ext_pullup, ext_olat, pins_pull, pins_level, written,
                   overflow_checks, vel, pipeVars>>

\* The match on `pull` with pull-down quietly treated as no pull.
pull_on_down_as_none(pull) == [panic |-> FALSE, on |-> (pull = "Up")]

\* The match on `pull` in set_pull's Extended arm: pull-down is
\* unimplemented!(), which panics.
pull_on(pull) ==
    IF pull = "Down" THEN [panic |-> TRUE, on |-> FALSE]
    ELSE [panic |-> FALSE, on |-> (pull = "Up")]

PullResult(pin, pull, bus_ok) ==
    CASE pin.kind = "Panic" -> "Panic"
      [] pin.kind = "InvalidPin" -> "InvalidPin"
      [] pin.kind = "Extended" /\ pull_on(pull).panic -> "Panic"
      [] pin.kind = "Extended" /\ ~bus_ok -> "ExtenderError"
      [] OTHER -> "Ok"

\* TransparentPins::set_pull
set_pull(addr, pull) ==
    /\ CanCall
    /\ LET pin == Resolve(tp, addr)
           touches_bus == pin.kind = "Extended" /\ ~pull_on(pull).panic
       IN  \E bus_ok \in BOOLEAN :
             /\ touches_bus \/ bus_ok
             /\ ext_pullup' =
                  IF touches_bus /\ bus_ok
                  THEN [ext_pullup EXCEPT ![pin.ext_id] =
                          IF pull_on(pull).on THEN @ \cup {pin.loc_pin}
                          ELSE @ \ {pin.loc_pin}]
                  ELSE ext_pullup
             /\ pins_pull' =
                  IF pin.kind = "Onboard"
                  THEN [pins_pull EXCEPT ![pin.idx] = pull]
                  ELSE pins_pull
             /\ last' = Call("set_pull", addr, pull, {},
                             PullResult(pin, pull, bus_ok), pin,
                             IF touches_bus THEN 1 ELSE 0, {}, {})
    /\ nops' = nops + 1
    /\ UNCHANGED <<tp, ext_dir, ext_olat, pins_dir, pins_level, written,
                   overflow_checks, vel, pipeVars>>

-----------------------------------------------------------------------------
(* pins.rs: bulk write and read *)

LowByte(w) == {b \in w : b < 8}
HighByte(w) == Shr({b \in w : b >= 8 /\ b < 16}, 8)

\* mcp23017 write_gpioab(word): the low byte goes to port A (local pins
\* PORT_A..PORT_A+7), the high byte to port B.  The result is the set of
\* local pins whose latch is high.
write_gpioab(word) == Shl(LowByte(word), PORT_A) \cup Shl(HighByte(word), PORT_B)

\* mcp23017 read_gpioab(): the ports come back flipped, port A in the high
\* byte and port B in the low byte.  `levels` is the set of local pins that
\* read high.
read_gpioab(levels) ==
    LET port_a == Shr({p \in levels : p >= PORT_A /\ p < PORT_A + 8}, PORT_A)
        port_b == Shr({p \in levels : p >= PORT_B /\ p < PORT_B + 8}, PORT_B)
    IN  Shl(port_a, 8) \cup port_b

\* TransparentPins::raw_to_usable
raw_to_usable(val) ==
    IF tp.disable_unsafe_pins
    THEN LET port_a == Shr(val \cap (8 .. 15), 8)
             port_b == val \cap (0 .. 7)
         IN  (port_a \cap (0 .. 6)) \cup AsU16(Shl(port_b \cap (0 .. 6), 7))
    ELSE val

\* TransparentPins::usable_to_raw
usable_to_raw(val) ==
    IF tp.disable_unsafe_pins
    THEN (val \cap (0 .. 7)) \cup AsU16(Shl(val \cap (8 .. 15), 1))
    ELSE val

\* write_all: `(val >> (i * usable_pins_per_extender)) & ((1 << upp) - 1)`
ext_val(val, i) ==
    Shr(val, i * tp.usable_pins_per_extender)
        \cap LowMask(tp.usable_pins_per_extender)

\* write_all: `(val >> self.usable_extended_pins >> pin) & 1` is 1
regular_level(val, pin) == 0 \in Shr(Shr(val, tp.usable_extended_pins), pin)

\* TransparentPins::write_all.  fail_at is the extender whose transaction
\* fails (N_PIN_EXTENDERS: none does); the `?` returns there, the extenders
\* before it are already written.
write_all(val, fail_at) ==
    /\ CanCall
    /\ ext_olat' = [i \in Extenders |->
                      IF i < fail_at
                      THEN write_gpioab(usable_to_raw(AsU16(ext_val(val, i))))
                      ELSE ext_olat[i]]
    /\ pins_level' = IF fail_at = N_PIN_EXTENDERS
                     THEN {pin \in RegularPins : regular_level(val, pin)}
                     ELSE pins_level
    /\ written' = [some |-> fail_at = N_PIN_EXTENDERS,
                   val |-> IF fail_at = N_PIN_EXTENDERS THEN val ELSE {}]
    /\ last' = Call("write_all", 0, "None", val,
                    IF fail_at = N_PIN_EXTENDERS THEN "Ok" ELSE "ExtenderError",
                    NoTarget,
                    IF fail_at = N_PIN_EXTENDERS THEN fail_at ELSE fail_at + 1,
                    {}, {})
    /\ nops' = nops + 1
    /\ UNCHANGED <<tp, ext_dir, ext_pullup, pins_dir, pins_pull,
                   overflow_checks, vel, pipeVars>>

\* Physical pins (get_pin's numbering) driven high by the output latches.
Latched ==
    UNION {Shl(ext_olat[i], i * PINS_PER_EXTENDER) : i \in Extenders}
        \cup Shl(pins_level, N_EXTENDED_PINS)

\* Physical pins configured as outputs.
Outputs ==
    UNION {Shl(ext_dir[i], i * PINS_PER_EXTENDER) : i \in Extenders}
        \cup Shl(pins_dir, N_EXTENDED_PINS)

\* The level each physical pin reads: an output pin reads its latch, an
\* input pin reads what the circuit outside (env) puts on it.
Levels(env) == (Outputs \cap Latched) \cup (env \ Outputs)

\* read_all, from the levels of the physical pins
read_value(levels) ==
    UNION {Shl(AsU64(raw_to_usable(read_gpioab(
                   Shr(levels \cap (i * PINS_PER_EXTENDER ..
                                    i * PINS_PER_EXTENDER + PINS_PER_EXTENDER - 1),
                       i * PINS_PER_EXTENDER)))),
               i * tp.usable_pins_per_extender) : i \in Extenders}
      \cup {tp.usable_extended_pins + pin :
               pin \in {q \in RegularPins : (N_EXTENDED_PINS + q) \in levels}}

\* TransparentPins::read_all.  env is what the outside circuit puts on the
\* pins; fail_at as in write_all.
read_all(env, fail_at) ==
    /\ CanCall
    /\ last' = Call("read_all", 0, "None", {},
                    IF fail_at = N_PIN_EXTENDERS THEN "Ok" ELSE "ExtenderError",
                    NoTarget,
                    IF fail_at = N_PIN_EXTENDERS THEN fail_at ELSE fail_at + 1,
                    IF fail_at = N_PIN_EXTENDERS THEN read_value(Levels(env))
                    ELSE {},
                    Levels(env))
    /\ nops' = nops + 1
    /\ UNCHANGED <<tp, hwVars, written, overflow_checks, vel, pipeVars>>

-----------------------------------------------------------------------------
(* matrix.rs: velocity profiles *)

\* A u64 as four 16-bit limbs, most significant first.
Limbs(n) == <<0, 0, n \div 65536, n % 65536>>
\* whether a u64 is below 2^31, and its value then
Fits31(us) == us[1] = 0 /\ us[2] = 0 /\ us[3] < 32768
Val31(us) == us[3] * 65536 + us[4]
\* `us <= k` and `min(us, k)` in u64, for a literal k
LeqU64(us, k) == Fits31(us) /\ Val31(us) <= k
MinU64(us, k) == IF LeqU64(us, k) THEN Val31(us) ELSE k
\* `a < b` on u64
LessU64(a, b) ==
    \E i \in 1 .. 4 : a[i] < b[i] /\ \A j \in 1 .. (i - 1) : a[j] = b[j]

\* a + b and a - b (a >= b) on u64, limb by limb
AddU64(a, b) ==
    LET s4 == a[4] + b[4]
        s3 == a[3] + b[3] + s4 \div 65536
        s2 == a[2] + b[2] + s3 \div 65536
        s1 == a[1] + b[1] + s2 \div 65536
    IN  <<s1 % 65536, s2 % 65536, s3 % 65536, s4 % 65536>>
SubU64(a, b) ==
    LET d4 == a[4] - b[4]
        b4 == IF d4 < 0 THEN 1 ELSE 0
        d3 == a[3] - b[3] - b4
        b3 == IF d3 < 0 THEN 1 ELSE 0
        d2 == a[2] - b[2] - b3
        b2 == IF d2 < 0 THEN 1 ELSE 0
        d1 == a[1] - b[1] - b2
    IN  <<d1 % 65536, d2 % 65536, d3 % 65536, d4 % 65536>>

\* `us as i32`: the low 32 bits, read as two's complement
AsI32(us) ==
    IF us[3] >= 32768 THEN (us[3] - 65536) * 65536 + us[4]
    ELSE us[3] * 65536 + us[4]

\* `k - x` in i32 for a literal k >= 0: beyond i32::MAX the subtraction
\* panics when the build checks overflow and wraps otherwise.
SubI32(k, x) ==
    IF x < k - 2147483647
    THEN IF overflow_checks
         THEN [panic |-> TRUE, v |-> 0]
         ELSE [panic |-> FALSE,
               v |-> ((k - ((x + 2147483647) + 1)) - 2147483647) - 1]
    ELSE [panic |-> FALSE, v |-> k - x]

Max(a, b) == IF a >= b THEN a ELSE b
Min(a, b) == IF a <= b THEN a ELSE b
\* `as u8`
AsU8(n) == n % 256

\* fn velocity_light
velocity_light(us) ==
    IF LeqU64(us, 60000)
    THEN [panic |-> FALSE,
          v |-> AsU8(Min(127, (135000 - (Val31(us) * 6) \div 5) \div 1000))]
    ELSE [panic |-> FALSE,
          v |-> AsU8(127 - MinU64(us, 240000) \div 4000 - 60)]

\* fn velocity_heavy
velocity_heavy(us) ==
    IF LeqU64(us, 17000)
    THEN [panic |-> FALSE, v |-> AsU8((113000 - Val31(us)) \div 1000)]
    ELSE [panic |-> FALSE,
          v |-> AsU8((127000 - MinU64(us, 190000) \div 2 - 22000) \div 1000)]

\* fn velocity_linear
velocity_linear(us) ==
    LET d == SubI32(120900, AsI32(us))
    IN  IF d.panic THEN d
        ELSE [panic |-> FALSE, v |-> AsU8(Max(d.v, 5000) \div 1000)]

VelocityProfile == {"Linear", "Heavy", "Light"}

\* scan, N2 branch: `match config.velocity_prof`
velocity_of(prof, dur) ==
    CASE prof = "Heavy" -> velocity_heavy(dur)
      [] prof = "Linear" -> velocity_linear(dur)
      [] prof = "Light" -> velocity_light(dur)

\* The duration handed to the profile and the velocity handed to note_on by
\* the N2 branch of scan; the press before it is kept for comparison.
VelStart(prof) ==
    [pc |-> "ready", prof |-> prof, n |-> 0,
     dur |-> Limbs(0), velocity |-> 0,
     prev_dur |-> Limbs(0), prev_velocity |-> 0]

\* the scanner is not part of the pin driver's specifications
VelIdle == [VelStart("Linear") EXCEPT !.pc = "idle"]

\* scan, N2 branch: `dur` microseconds after the first contact the velocity
\* is computed with the configured profile and given to note_on.
press(dur) ==
    /\ vel.pc = "ready"
    /\ LET r == velocity_of(vel.prof, dur)
       IN  vel' = IF r.panic
                  THEN [vel EXCEPT !.pc = "panic", !.dur = dur]
                  ELSE [vel EXCEPT !.n = Min(vel.n + 1, 2),
                                   !.prev_dur = vel.dur,
                                   !.prev_velocity = vel.velocity,
                                   !.dur = dur, !.velocity = r.v]
    /\ UNCHANGED <<tp, hwVars, written, last, nops, overflow_checks, pipeVars>>

-----------------------------------------------------------------------------
(* Inputs *)

\* every u64 bit mask with one bit set or one bit clear, none or all
U64Bits == 0 .. 63
AllVals ==
    {{}, U64Bits} \cup {{b} : b \in U64Bits} \cup {U64Bits \ {b} : b \in U64Bits}
\* what the outside circuit puts on the pins: one pin high, one pin low,
\* none, all, or every pin tied to its own output latch
AllEnvs ==
    {{}, PhysPins, Latched} \cup {{p} : p \in PhysPins}
        \cup {PhysPins \ {p} : p \in PhysPins}

\* A sample for call sequences: the first and last address of each branch
\* of addr_to_pin and get_pin, an out-of-range address and one near u8::MAX.
Addrs == {0, 7, 13, 14, 28, 39, 40, 252}
Vals == {{}, {0}, {7}, {8}, {14}, {28}, U64Bits}
Envs == {{}, PhysPins, Latched, {0}, {8}}
FailAt == 0 .. N_PIN_EXTENDERS

GridDurations == {Limbs(k * DurStep) : k \in 0 .. MaxDurK}
\* the branch boundaries and saturation points of the three profiles
EdgeDurations ==
    {Limbs(e + o) : e \in {17000, 60000, 115900, 120900, 190000, 240000},
                    o \in {-1, 0, 1}}
\* 2^31 - 1, 2^31, the two durations around the i32 overflow of
\* `120900 - (us as i32)`, 2^32 - 135100, 2^32 - 1, 2^32 and u64::MAX
BigDurations ==
    {<<0, 0, 32767, 65535>>, <<0, 0, 32768, 0>>, <<0, 0, 32769, 55364>>,
     <<0, 0, 32769, 55365>>, <<0, 0, 65533, 61508>>, <<0, 0, 65535, 65535>>,
     <<0, 1, 0, 0>>, <<65535, 65535, 65535, 65535>>}
Durations == GridDurations \cup EdgeDurations \cup BigDurations

-----------------------------------------------------------------------------
(* midi/mod.rs: messages *)

\* Option<T>: None is the empty sequence, Some(x) the sequence of x alone.
None == <<>>
Some(x) == <<x>>
is_some(o) == o # <<>>
is_none(o) == o = <<>>
unwrap(o) == o[1]

\* A byte as the set of its 1 bits, and back
Bits8(n) == {b \in 0 .. 7 : (n \div (2 ^ b)) % 2 = 1}
RECURSIVE ByteOf(_)
ByteOf(bits) ==
    IF bits = {} THEN 0
    ELSE LET b == CHOOSE x \in bits : TRUE
         IN  2 ^ b + ByteOf(bits \ {b})
\* u8 & u8 and u8 | u8
AndU8(a, b) == ByteOf(Bits8(a) \cap Bits8(b))
OrU8(a, b) == ByteOf(Bits8(a) \cup Bits8(b))

\* Note discriminants (`note as u8`) and the sustain pedal's controller number
C4 == 60
D4 == 62
E4 == 64
SustainPedal == 64

\* NoteMsg::new, ControllerMsg::new
NoteMsg_new(on, note, velocity) ==
    [type |-> "Note", on |-> on, note |-> note, velocity |-> velocity]
ControllerMsg_new(controller, value) ==
    [type |-> "Controller", controller |-> controller, value |-> value]

\* MidiMsg::new storing the channel as given.
MidiMsg_new_unmasked(msg, channel) == [msg |-> msg, channel |-> channel]

\* MidiMsg::new: `channel: channel & 0xf`
MidiMsg_new(msg, channel) == [msg |-> msg, channel |-> AndU8(channel, 15)]

\* MidiChannel::new: the channel is stored as given
MidiChannel_new(channel) == [channel |-> channel]

\* The messages note_on, note_off and controller hand to MIDI_QUEUE.send
note_on_msg(chan, note, velocity) ==
    MidiMsg_new(NoteMsg_new(TRUE, note, velocity), chan.channel)
note_off_msg(chan, note, velocity) ==
    MidiMsg_new(NoteMsg_new(FALSE, note, velocity), chan.channel)
controller_msg(chan, ctrl, value) ==
    MidiMsg_new(ControllerMsg_new(ctrl, value), chan.channel)

-----------------------------------------------------------------------------
(* midi/mod.rs: MIDI_QUEUE *)

\* Channel<ThreadModeRawMutex, MidiMsg, 3>
MIDI_QUEUE_N == 3

\* The tasks that send: the scanner, the pedal monitor, and a direct user of
\* the public MidiChannel interface.
Producers == {"scan", "pedal", "api"}

Suspended(p) == is_some(pending[p])

\* Messages handed to send() so far; each is numbered in hand-over order and
\* remembers the channel its MidiChannel was made with and whether its
\* sender had to wait.
Handed == handed

\* send() putting the message in whether or not a slot is free.
send_overfill(p, chan, m) ==
    LET e == [id |-> Handed + 1, by |-> p, given |-> chan.channel,
              waited |-> FALSE, m |-> m]
    IN  /\ handed' = handed + 1
        /\ queue' = Append(queue, e)
        /\ enqueued' = Append(enqueued, e)
        /\ pending' = pending

\* send() returning without the message when no slot is free.
send_drop_when_full(p, chan, m) ==
    LET e == [id |-> Handed + 1, by |-> p, given |-> chan.channel,
              waited |-> FALSE, m |-> m]
    IN  /\ handed' = handed + 1
        /\ pending' = pending
        /\ IF Len(queue) < MIDI_QUEUE_N
           THEN /\ queue' = Append(queue, e)
                /\ enqueued' = Append(enqueued, e)
           ELSE UNCHANGED <<queue, enqueued>>

\* MIDI_QUEUE.send(m).await by task p through its MidiChannel `chan`: the
\* message is accepted if a slot is free, otherwise the task suspends holding
\* it.
send(p, chan, m) ==
    LET e == [id |-> Handed + 1, by |-> p, given |-> chan.channel,
              waited |-> FALSE, m |-> m]
    IN  /\ handed' = handed + 1
        /\ IF Len(queue) < MIDI_QUEUE_N
           THEN /\ queue' = Append(queue, e)
                /\ enqueued' = Append(enqueued, e)
                /\ pending' = pending
           ELSE /\ pending' = [pending EXCEPT
                                 ![p] = Some([e EXCEPT !.waited = TRUE])]
                /\ UNCHANGED <<queue, enqueued>>

\* whether send() by a task returns without suspending
SendReturns == Len(queue) < MIDI_QUEUE_N

\* A resumed send() putting its message ahead of those queued.
send_resume_front(p) ==
    /\ Suspended(p)
    /\ Len(queue) < MIDI_QUEUE_N
    /\ queue' = <<unwrap(pending[p])>> \o queue
    /\ enqueued' = Append(enqueued, unwrap(pending[p]))
    /\ UNCHANGED handed
    /\ pending' = [pending EXCEPT ![p] = None]

\* A suspended send() is polled again once a slot is free.
send_resume(p) ==
    /\ Suspended(p)
    /\ Len(queue) < MIDI_QUEUE_N
    /\ queue' = Append(queue, unwrap(pending[p]))
    /\ enqueued' = Append(enqueued, unwrap(pending[p]))
    /\ UNCHANGED handed
    /\ pending' = [pending EXCEPT ![p] = None]

-----------------------------------------------------------------------------
(* midi/mod.rs midi_session and usb.rs midi_fut: the transport *)

\* MidiClass::new(&mut builder, 1, 1, 64): the endpoint's packet size
MAX_PACKET_SIZE == 64

\* panic_probe: a panic in any task halts the device.
Halted == scan.pc = "panicked" \/ usb.pc = "panicked"

\* Tasks are polled one at a time: another task runs only while the scanner
\* is not started or is suspended in send() or in its Timer.
ScanYielded == scan.pc \in {"start", "send", "timer"}

\* midi_session: the packet built for a received message
packet_of(m) ==
    IF m.msg.type = "Note"
    THEN <<8, OrU8(IF m.msg.on THEN 144 ELSE 128, m.channel),
           m.msg.note, m.msg.velocity>>
    ELSE <<8, OrU8(176, m.channel), m.msg.controller, m.msg.value>>

\* Endpoint write: a packet longer than the endpoint's size overflows, a
\* disabled endpoint refuses.
write_result(packet) ==
    IF Len(packet) > MAX_PACKET_SIZE THEN "BufferOverflow"
    ELSE IF enabled THEN "Ok" ELSE "Disabled"

\* The conversion treating every endpoint error as fatal.
Disconnected_from_fatal(val) == "panic"

\* impl From<EndpointError> for Disconnected
Disconnected_from(val) ==
    IF val = "BufferOverflow" THEN "panic" ELSE "Disconnected"

\* A new session beginning with an empty queue.
wait_connection_clears ==
    /\ ~Halted /\ ScanYielded
    /\ usb.pc = "wait_connection"
    /\ enabled
    /\ usb' = [usb EXCEPT !.pc = "receive"]
    /\ queue' = <<>>
    /\ UNCHANGED pinVars
    /\ UNCHANGED <<bus, matrix, scan, note_first, note_on, now, ped, pedal_pin,
                   enqueued, handed, enabled, received, wire, pending, mon, evs>>

\* usb.rs: midi_class.wait_connection().await, then midi_session begins
wait_connection ==
    /\ ~Halted /\ ScanYielded
    /\ usb.pc = "wait_connection"
    /\ enabled
    /\ usb' = [usb EXCEPT !.pc = "receive"]
    /\ UNCHANGED pinVars
    /\ UNCHANGED <<bus, matrix, scan, note_first, note_on, now, ped, pedal_pin,
                   queue, enqueued, handed, enabled, received, wire, pending, mon, evs>>

\* receive() taking the newest message instead of the oldest.
receive_newest ==
    /\ ~Halted /\ ScanYielded
    /\ usb.pc = "receive"
    /\ queue # <<>>
    /\ usb' = [usb EXCEPT !.pc = "write", !.msg = Some(queue[Len(queue)])]
    /\ queue' = SubSeq(queue, 1, Len(queue) - 1)
    /\ received' = Append(received, queue[Len(queue)])
    /\ UNCHANGED pinVars
    /\ UNCHANGED <<bus, matrix, scan, note_first, note_on, now, ped, pedal_pin,
                   enqueued, handed, enabled, wire, pending, mon, evs>>

\* receive() leaving the message in the queue.
receive_peek ==
    /\ ~Halted /\ ScanYielded
    /\ usb.pc = "receive"
    /\ queue # <<>>
    /\ usb' = [usb EXCEPT !.pc = "write", !.msg = Some(Head(queue))]
    /\ received' = Append(received, Head(queue))
    /\ UNCHANGED pinVars
    /\ UNCHANGED <<bus, matrix, scan, note_first, note_on, now, ped, pedal_pin,
                   queue, enqueued, handed, enabled, wire, pending, mon, evs>>

\* midi_session: `let msg = MIDI_QUEUE.receive().await;`
receive ==
    /\ ~Halted /\ ScanYielded
    /\ usb.pc = "receive"
    /\ queue # <<>>
    /\ usb' = [usb EXCEPT !.pc = "write", !.msg = Some(Head(queue))]
    /\ queue' = Tail(queue)
    /\ received' = Append(received, Head(queue))
    /\ UNCHANGED pinVars
    /\ UNCHANGED <<bus, matrix, scan, note_first, note_on, now, ped, pedal_pin,
                   enqueued, handed, enabled, wire, pending, mon, evs>>

\* The numbers of the messages a queue holds
IdsIn(q) == {q[k].id : k \in 1 .. Len(q)}

\* What a write leaves in the transport: after Ok the session goes on; after
\* Disabled it ends, and `failed` and `kept` remember the message whose write
\* failed and the messages the queue held then.
AfterWrite(r, e, q) ==
    IF r = "Ok" THEN [usb EXCEPT !.pc = "receive", !.msg = None]
    ELSE [usb EXCEPT
            !.pc = IF Disconnected_from(r) = "panic"
                   THEN "panicked" ELSE "wait_connection",
            !.msg = None,
            !.failed = @ \cup {e.id},
            !.kept = @ \cup IdsIn(q)]

\* write_packet's Disabled also emptying the queue.
write_packet_flush ==
    /\ ~Halted /\ ScanYielded
    /\ usb.pc = "write"
    /\ LET e == unwrap(usb.msg)
           packet == packet_of(e.m)
           r == write_result(packet)
       IN  /\ wire' = IF r = "Ok"
                      THEN Append(wire, [id |-> e.id, packet |-> packet])
                      ELSE wire
           /\ usb' = AfterWrite(r, e, queue)
           /\ queue' = IF r = "Ok" THEN queue ELSE <<>>
    /\ UNCHANGED pinVars
    /\ UNCHANGED <<bus, matrix, scan, note_first, note_on, now, ped, pedal_pin,
                   enqueued, handed, enabled, received, pending, mon, evs>>

\* midi_session: `midi.write_packet(&packet).await?`.  Disabled ends the
\* session and midi_fut loops back to wait_connection; the message taken
\* from the queue is gone with the session's locals, the queue is untouched.
write_packet ==
    /\ ~Halted /\ ScanYielded
    /\ usb.pc = "write"
    /\ LET e == unwrap(usb.msg)
           packet == packet_of(e.m)
           r == write_result(packet)
       IN  /\ wire' = IF r = "Ok"
                      THEN Append(wire, [id |-> e.id, packet |-> packet])
                      ELSE wire
           /\ usb' = AfterWrite(r, e, queue)
    /\ UNCHANGED pinVars
    /\ UNCHANGED <<bus, matrix, scan, note_first, note_on, now, ped, pedal_pin,
                   queue, enqueued, handed, enabled, received, pending, mon, evs>>

\* The host enables or disables the endpoint (plug, unplug, reconfigure).
usb_flip ==
    /\ ScanYielded
    /\ enabled' = ~enabled
    /\ UNCHANGED pinVars
    /\ UNCHANGED <<bus, matrix, scan, note_first, note_on, now, ped, pedal_pin,
                   queue, enqueued, handed, usb, received, wire, pending, mon, evs>>

-----------------------------------------------------------------------------
(* matrix.rs: the scanner *)

\* KeyAction
N1(note) == [kind |-> "N1", note |-> note, velocity |-> 0]
N2(note) == [kind |-> "N2", note |-> note, velocity |-> 0]
N(note, velocity) == [kind |-> "N", note |-> note, velocity |-> velocity]
NOP == [kind |-> "NOP", note |-> 0, velocity |-> 0]

\* KeyMatrix::new with scan's Config; keymap[j][i] is row j, column i
KeyMatrix_new(col_pins, row_pins, keymap, velocity_prof) ==
    [col_pins |-> col_pins, row_pins |-> row_pins, keymap |-> keymap,
     velocity_prof |-> velocity_prof]

N_COLS == Len(matrix.col_pins)
N_ROWS == Len(matrix.row_pins)

\* The notes the keymap names: the only entries of note_first and note_on
\* (arrays of MAX_NOTES) that scan ever touches.
KeymapNotes(m) ==
    {m.keymap[j][i].note :
        j \in 1 .. Len(m.row_pins), i \in 1 .. Len(m.col_pins)}

\* The transparent addresses scan configures before its loop.
UsablePins == 0 .. (tp.n_total_pins - 1)

\* Physical pins configured as outputs, for given direction registers
OutputsOf(ed, pd) ==
    UNION {Shl(ed[i], i * PINS_PER_EXTENDER) : i \in Extenders}
        \cup Shl(pd, N_EXTENDED_PINS)

\* What read_all returns with the given direction registers
read_with(ed, pd, env) ==
    read_value((OutputsOf(ed, pd) \cap Latched) \cup (env \ OutputsOf(ed, pd)))

\* The circuit outside during a strobe: every pin is pulled high except the
\* row pins whose key in the strobed column is closed.
EnvOf(closed) ==
    PhysPins \ {PhysOf(Resolve(tp, matrix.row_pins[j])) : j \in closed}

\* a ^ b
Xor(a, b) == (a \ b) \cup (b \ a)

\* The mask without the all-inactive pattern.
mask_of_raw(input, col) == Xor(input, {col})

\* The mask taken as the pins that read high.
mask_of_high(input, col) == input \ {col}

\* `input ^ (((1 << n_usable_pins) - 1) ^ (1 << col))`
mask_of(input, col) == Xor(input, Xor(LowMask(tp.n_total_pins), {col}))

\* `mask & (1 << row) != 0`
key_active(mask, row) == row \in mask

\* panic_probe is the panic handler (lib.rs line 8): whether it prints the
\* panic message to the debug probe before it stops the core depends on the
\* features it is built with.  These are the ways a panic can end.
PanicHandler == {<<"halt">>, <<"probe_print", "halt">>}

\* unwrap as it would be without its first line (lib.rs lines 22-31): an Err
\* is logged twice, the task sleeps a second, then panics.
unwrap_Err_logged == <<"log_error", "log_error", "Timer", "panic">>

\* unwrap (lib.rs lines 20-21) on an Err: `return res.unwrap();` panics at
\* once; the logging below it is never reached.
unwrap_Err == <<"panic">>

\* an arithmetic overflow in a build that checks for it
overflow_panic == <<"overflow", "panic">>

\* scan, before its loop: every pin an input with pull-up, the two arrays
\* empty.  ok tells whether every bus transaction succeeds; unwrap panics
\* on the first that does not.
scan_start(ok) ==
    /\ ~Halted
    /\ scan.pc = "start"
    /\ LET pin(a) == Resolve(tp, a)
           ext(i) == {pin(a).loc_pin :
                        a \in {x \in UsablePins : pin(x).kind = "Extended"
                                                  /\ pin(x).ext_id = i}}
           onb == {pin(a).idx : a \in {x \in UsablePins : pin(x).kind = "Onboard"}}
       IN  IF ok
           THEN /\ ext_dir' = [i \in Extenders |-> ext_dir[i] \ ext(i)]
                /\ ext_pullup' = [i \in Extenders |-> ext_pullup[i] \cup ext(i)]
                /\ pins_dir' = pins_dir \ onb
                /\ pins_pull' = [p \in RegularPins |->
                                   IF p \in onb THEN "Up" ELSE pins_pull[p]]
                /\ scan' = [scan EXCEPT !.pc = "strobe", !.i = 1, !.j = 1,
                                        !.chan = MidiChannel_new(0)]
           ELSE /\ UNCHANGED <<ext_dir, ext_pullup, pins_dir, pins_pull>>
                /\ scan' = [scan EXCEPT !.pc = "panicked",
                                        !.halt = <<"scan_start">> \o unwrap_Err]
    /\ note_first' = [n \in KeymapNotes(matrix) |-> None]
    /\ note_on' = [n \in KeymapNotes(matrix) |-> None]
    /\ UNCHANGED <<tp, ext_olat, pins_level, written, last, nops,
                   overflow_checks, vel>>
    /\ UNCHANGED <<bus, matrix, now, ped, pedal_pin, queue, enqueued, handed, usb, enabled,
                   received, wire, pending, mon, evs>>

StrobeFail == {"none", "set_output", "read_all", "set_input"}

\* The strobe going on to the rows after a failed bus transaction, with the
\* mask of the strobe before.
strobe_swallow(closed, fail) ==
    /\ ~Halted
    /\ scan.pc = "strobe"
    /\ LET col == matrix.col_pins[scan.i]
           pin == Resolve(tp, col)
           ed_out == ExtDirAfter(ext_dir, pin, TRUE)
           pd_out == PinsDirAfter(pins_dir, pin, TRUE)
           input == read_with(ed_out, pd_out, EnvOf(closed))
           mask == mask_of(input, col)
       IN  /\ (fail \in {"set_output", "set_input"}) => pin.kind = "Extended"
           /\ ext_dir' = CASE fail = "set_output" -> ext_dir
                           [] fail = "none" -> ExtDirAfter(ed_out, pin, FALSE)
                           [] OTHER -> ed_out
           /\ pins_dir' = IF fail = "none"
                          THEN PinsDirAfter(pd_out, pin, FALSE) ELSE pd_out
           /\ scan' = IF fail = "none"
                      THEN [scan EXCEPT !.pc = "rows", !.j = 1, !.mask = mask,
                                        !.closed = closed]
                      ELSE [scan EXCEPT !.pc = "rows", !.j = 1,
                                        !.closed = closed]
    /\ UNCHANGED <<tp, ext_pullup, ext_olat, pins_pull, pins_level, written,
                   last, nops, overflow_checks, vel>>
    /\ UNCHANGED <<bus, matrix, note_first, note_on, now, ped, pedal_pin, queue,
                   enqueued, handed, usb, enabled, received, wire, pending, mon, evs>>

\* scan, lines 126-135: strobe column i and read the rows.  `closed` are the
\* rows whose key in this column is closed; `fail` is the driver call whose
\* bus transaction fails, which unwrap turns into a panic.
strobe(closed, fail) ==
    /\ ~Halted
    /\ scan.pc = "strobe"
    /\ LET col == matrix.col_pins[scan.i]
           pin == Resolve(tp, col)
           ed_out == ExtDirAfter(ext_dir, pin, TRUE)
           pd_out == PinsDirAfter(pins_dir, pin, TRUE)
           input == read_with(ed_out, pd_out, EnvOf(closed))
           mask == mask_of(input, col)
       IN  /\ (fail \in {"set_output", "set_input"}) => pin.kind = "Extended"
           /\ ext_dir' = CASE fail = "set_output" -> ext_dir
                           [] fail = "none" -> ExtDirAfter(ed_out, pin, FALSE)
                           [] OTHER -> ed_out
           /\ pins_dir' = IF fail = "none"
                          THEN PinsDirAfter(pd_out, pin, FALSE) ELSE pd_out
           /\ scan' = IF fail = "none"
                      THEN [scan EXCEPT !.pc = "rows", !.j = 1, !.mask = mask,
                                        !.input = input, !.closed = closed]
                      ELSE [scan EXCEPT !.pc = "panicked",
                                        !.halt = <<fail>> \o unwrap_Err]
    /\ UNCHANGED <<tp, ext_pullup, ext_olat, pins_pull, pins_level, written,
                   last, nops, overflow_checks, vel>>
    /\ UNCHANGED <<bus, matrix, note_first, note_on, now, ped, pedal_pin, queue,
                   enqueued, handed, usb, enabled, received, wire, pending, mon, evs>>

\* The strobe of a column when read_all returns the value `input`: the rows
\* that read low are those whose bit of the value is 0.
strobe_value(input) ==
    /\ ~Halted
    /\ scan.pc = "strobe"
    /\ LET col == matrix.col_pins[scan.i]
           pin == Resolve(tp, col)
       IN  /\ ext_dir' = ExtDirAfter(ExtDirAfter(ext_dir, pin, TRUE), pin, FALSE)
           /\ pins_dir' = PinsDirAfter(PinsDirAfter(pins_dir, pin, TRUE), pin, FALSE)
           /\ scan' = [scan EXCEPT
                         !.pc = "rows", !.j = 1, !.mask = mask_of(input, col),
                         !.input = input,
                         !.closed = {j \in 1 .. N_ROWS :
                                        matrix.row_pins[j] \notin input}]
    /\ UNCHANGED <<tp, ext_pullup, ext_olat, pins_pull, pins_level, written,
                   last, nops, overflow_checks, vel>>
    /\ UNCHANGED <<bus, matrix, note_first, note_on, now, ped, pedal_pin, queue,
                   enqueued, handed, usb, enabled, received, wire, pending, mon, evs>>

\* What an arm of the match on key_action leaves: the two array entries of
\* the cell's note, the message handed to the channel if any, and whether the
\* velocity computation panicked.
Arm(first, on, emit) ==
    [panic |-> FALSE, first |-> first, on |-> on, emit |-> emit]

\* The N arm sending Note Off without ending the note.
arm_N_keeps_on(cell, active, first, on, t, prof, chan) ==
    IF active
    THEN IF is_none(on)
         THEN Arm(first, Some(t),
                  Some(note_on_msg(chan, cell.note, cell.velocity)))
         ELSE Arm(first, on, None)
    ELSE IF is_some(on)
         THEN Arm(first, on, Some(note_off_msg(chan, cell.note, 0)))
         ELSE Arm(first, on, None)

\* The N arm sending Note On at every active read.
arm_N_retrigger(cell, active, first, on, t, prof, chan) ==
    IF active
    THEN Arm(first, Some(t), Some(note_on_msg(chan, cell.note, cell.velocity)))
    ELSE IF is_some(on)
         THEN Arm(first, None, Some(note_off_msg(chan, cell.note, 0)))
         ELSE Arm(first, on, None)

\* The N1 arm sending Note Off at every release of the first contact.
arm_N1_always_off(cell, active, first, on, t, prof, chan) ==
    IF active
    THEN IF is_none(first) THEN Arm(Some(t), on, None) ELSE Arm(first, on, None)
    ELSE IF is_some(first)
         THEN Arm(None, None, Some(note_off_msg(chan, cell.note, 0)))
         ELSE Arm(first, on, None)

\* The N2 arm clearing the first-touch timestamp when the note begins to
\* sound.
arm_N2_clears_first(cell, active, first, on, t, prof, chan) ==
    IF active
    THEN IF is_some(first) /\ is_none(on)
         THEN LET dur == SubU64(t, unwrap(first))
                  velocity == velocity_of(prof, dur)
              IN  IF velocity.panic
                  THEN [Arm(first, on, None) EXCEPT !.panic = TRUE]
                  ELSE Arm(None, Some(t),
                           Some(note_on_msg(chan, cell.note, velocity.v)))
         ELSE IF is_some(on) THEN Arm(first, Some(t), None)
              ELSE Arm(first, on, None)
    ELSE Arm(first, on, None)

\* The N2 arm ending the note when the second contact opens.
arm_N2_releases(cell, active, first, on, t, prof, chan) ==
    IF active
    THEN IF is_some(first) /\ is_none(on)
         THEN LET dur == SubU64(t, unwrap(first))
                  velocity == velocity_of(prof, dur)
              IN  IF velocity.panic
                  THEN [Arm(first, on, None) EXCEPT !.panic = TRUE]
                  ELSE Arm(first, Some(t),
                           Some(note_on_msg(chan, cell.note, velocity.v)))
         ELSE IF is_some(on) THEN Arm(first, Some(t), None)
              ELSE Arm(first, on, None)
    ELSE IF is_some(on)
         THEN Arm(first, None, Some(note_off_msg(chan, cell.note, 0)))
         ELSE Arm(first, on, None)

\* The N2 arm sounding the note whether or not the first contact was seen.
arm_N2_no_first_check(cell, active, first, on, t, prof, chan) ==
    IF active
    THEN IF is_none(on)
         THEN LET dur == IF is_some(first) THEN SubU64(t, unwrap(first))
                         ELSE Limbs(0)
                  velocity == velocity_of(prof, dur)
              IN  IF velocity.panic
                  THEN [Arm(first, on, None) EXCEPT !.panic = TRUE]
                  ELSE Arm(first, Some(t),
                           Some(note_on_msg(chan, cell.note, velocity.v)))
         ELSE Arm(first, Some(t), None)
    ELSE Arm(first, on, None)

\* The N2 arm sounding the note again whenever the second contact closes.
arm_N2_retrigger(cell, active, first, on, t, prof, chan) ==
    IF active
    THEN IF is_some(first)
         THEN LET dur == SubU64(t, unwrap(first))
                  velocity == velocity_of(prof, dur)
              IN  IF velocity.panic
                  THEN [Arm(first, on, None) EXCEPT !.panic = TRUE]
                  ELSE Arm(first, Some(t),
                           Some(note_on_msg(chan, cell.note, velocity.v)))
         ELSE Arm(first, on, None)
    ELSE Arm(first, on, None)

\* The N2 arm taking the duration from the start of the clock.
arm_N2_since_boot(cell, active, first, on, t, prof, chan) ==
    IF active
    THEN IF is_some(first) /\ is_none(on)
         THEN LET velocity == velocity_of(prof, t)
              IN  IF velocity.panic
                  THEN [Arm(first, on, None) EXCEPT !.panic = TRUE]
                  ELSE Arm(first, Some(t),
                           Some(note_on_msg(chan, cell.note, velocity.v)))
         ELSE IF is_some(on) THEN Arm(first, Some(t), None)
              ELSE Arm(first, on, None)
    ELSE Arm(first, on, None)

\* scan, lines 140-158: KeyAction::N1(note)
arm_N1(cell, active, first, on, t, prof, chan) ==
    IF active
    THEN IF is_none(first) THEN Arm(Some(t), on, None) ELSE Arm(first, on, None)
    ELSE IF is_some(first)
         THEN IF is_some(on)
              THEN Arm(None, None, Some(note_off_msg(chan, cell.note, 0)))
              ELSE Arm(None, on, None)
         ELSE Arm(first, on, None)

\* scan, lines 159-185: KeyAction::N2(note)
arm_N2(cell, active, first, on, t, prof, chan) ==
    IF active
    THEN IF is_some(first) /\ is_none(on)
         THEN LET dur == SubU64(t, unwrap(first))
                  velocity == velocity_of(prof, dur)
              IN  IF velocity.panic
                  THEN [Arm(first, on, None) EXCEPT !.panic = TRUE]
                  ELSE Arm(first, Some(t),
                           Some(note_on_msg(chan, cell.note, velocity.v)))
         ELSE IF is_some(on) THEN Arm(first, Some(t), None)
              ELSE Arm(first, on, None)
    ELSE Arm(first, on, None)

\* scan, lines 186-196: KeyAction::N(note, velocity)
arm_N(cell, active, first, on, t, prof, chan) ==
    IF active
    THEN IF is_none(on)
         THEN Arm(first, Some(t),
                  Some(note_on_msg(chan, cell.note, cell.velocity)))
         ELSE Arm(first, on, None)
    ELSE IF is_some(on)
         THEN Arm(first, None, Some(note_off_msg(chan, cell.note, 0)))
         ELSE Arm(first, on, None)

\* The match with a NOP arm that sounds the cell's note when active.
cell_step_nop_on(cell, active, first, on, t, prof, chan) ==
    CASE cell.kind = "N1" -> arm_N1(cell, active, first, on, t, prof, chan)
      [] cell.kind = "N2" -> arm_N2(cell, active, first, on, t, prof, chan)
      [] cell.kind = "N" -> arm_N(cell, active, first, on, t, prof, chan)
      [] OTHER -> IF active
                  THEN Arm(first, Some(t),
                           Some(note_on_msg(chan, cell.note, 64)))
                  ELSE Arm(first, on, None)

\* The match on key_action (lines 139-198) for one cell
cell_step(cell, active, first, on, t, prof, chan) ==
    CASE cell.kind = "N1" -> arm_N1(cell, active, first, on, t, prof, chan)
      [] cell.kind = "N2" -> arm_N2(cell, active, first, on, t, prof, chan)
      [] cell.kind = "N" -> arm_N(cell, active, first, on, t, prof, chan)
      [] OTHER -> Arm(first, on, None)

\* What the reads alone tell about a key, cell by cell in scan's order.  A
\* fixed-velocity key is Idle until it reads active, Down while it does, and
\* Lifted after.  A two-switch key is Idle, then First once its first contact
\* reads active, Both once its second contact does too, Released when the
\* first contact reads inactive after that, and Aborted when it reads
\* inactive without the second contact having been active.  k counts the
\* cycles of the press so far; t0 and t1 are the times of the reads that
\* began First and Both; second tells whether the second contact, since
\* Both began, has stayed closed, has read open, or has read closed again
\* after that.
MonStart ==
    [ph |-> "Idle", k |-> 0, t0 |-> Limbs(0), t1 |-> Limbs(0),
     second |-> "none"]

mon_step(cell, active, m, t) ==
    CASE cell.kind = "N" ->
           IF active
           THEN IF m.ph = "Down" THEN [m EXCEPT !.k = @ + 1]
                ELSE [m EXCEPT !.ph = "Down", !.k = 1, !.t0 = t]
           ELSE IF m.ph = "Down" THEN [m EXCEPT !.ph = "Lifted"] ELSE m
      [] cell.kind = "N1" ->
           IF active
           THEN IF m.ph \in {"First", "Both"} THEN [m EXCEPT !.k = @ + 1]
                ELSE [m EXCEPT !.ph = "First", !.k = 1, !.t0 = t,
                               !.second = "none"]
           ELSE CASE m.ph = "First" -> [m EXCEPT !.ph = "Aborted"]
                  [] m.ph = "Both" -> [m EXCEPT !.ph = "Released"]
                  [] OTHER -> m
      [] cell.kind = "N2" ->
           IF active /\ m.ph = "First"
           THEN [m EXCEPT !.ph = "Both", !.t1 = t, !.second = "closed"]
           ELSE IF m.ph = "Both"
                THEN [m EXCEPT !.second =
                        IF ~active THEN "open"
                        ELSE IF @ = "open" THEN "reclosed" ELSE @]
                ELSE m
      [] OTHER -> m

\* whether the read begins a new press of the key
BeginsPress(cell, active, m) ==
    /\ active
    /\ \/ cell.kind = "N" /\ m.ph # "Down"
       \/ cell.kind = "N1" /\ m.ph \notin {"First", "Both"}

\* scan going from the last cell of a pass straight to the next pass.
Advance_no_yield ==
    IF scan.j < N_ROWS THEN [scan EXCEPT !.pc = "rows", !.j = @ + 1]
    ELSE IF scan.i < N_COLS
         THEN [scan EXCEPT !.pc = "strobe", !.i = @ + 1, !.j = 1]
         ELSE [scan EXCEPT !.pc = "strobe", !.i = 1, !.j = 1,
                           !.cycle = @ + 1]

\* Where scan goes after the cell at row j of column i: the next row, the
\* next column's strobe, or the Timer at the end of the cycle.
Advance ==
    IF scan.j < N_ROWS THEN [scan EXCEPT !.pc = "rows", !.j = @ + 1]
    ELSE IF scan.i < N_COLS
         THEN [scan EXCEPT !.pc = "strobe", !.i = @ + 1, !.j = 1]
         ELSE [scan EXCEPT !.pc = "timer"]

\* scan, lines 136-199: one cell of the strobed column
scan_cell ==
    /\ ~Halted
    /\ scan.pc = "rows"
    /\ LET cell == matrix.keymap[scan.j][scan.i]
           active == key_active(scan.mask, matrix.row_pins[scan.j])
           r == cell_step(cell, active,
                          note_first[cell.note], note_on[cell.note], now,
                          matrix.velocity_prof, scan.chan)
       IN  /\ mon' = [mon EXCEPT ![cell.note] = mon_step(cell, active, @, now)]
           /\ evs' = [evs EXCEPT ![cell.note] =
                        (IF BeginsPress(cell, active, mon[cell.note])
                         THEN <<>> ELSE @) \o r.emit]
           /\ note_first' = [note_first EXCEPT ![cell.note] = r.first]
           /\ note_on' = [note_on EXCEPT ![cell.note] = r.on]
           /\ IF r.panic
              THEN /\ scan' = [scan EXCEPT !.pc = "panicked",
                                           !.halt = overflow_panic]
                   /\ UNCHANGED <<queue, enqueued, handed, pending>>
              ELSE IF is_some(r.emit)
                   THEN /\ send("scan", scan.chan, unwrap(r.emit))
                        /\ scan' = [(IF SendReturns THEN Advance
                                     ELSE [scan EXCEPT !.pc = "send"])
                                      EXCEPT !.emitted =
                                          Append(@, <<scan.i, scan.j>>)]
                   ELSE /\ scan' = Advance
                        /\ UNCHANGED <<queue, enqueued, handed, pending>>
    /\ UNCHANGED pinVars
    /\ UNCHANGED <<bus, matrix, now, ped, pedal_pin, usb, enabled, received, wire>>

\* scan suspended in note_on / note_off: the send completes once the queue
\* has a free slot, and scan goes on with the next cell.
scan_resume ==
    /\ ~Halted
    /\ scan.pc = "send"
    /\ send_resume("scan")
    /\ scan' = Advance
    /\ UNCHANGED pinVars
    /\ UNCHANGED <<bus, matrix, note_first, note_on, now, ped, pedal_pin, usb,
                   enabled, received, wire, mon, evs>>

\* scan, line 215: `Timer::after_micros(50).await`, then the next cycle.  dt
\* is the time since the cycle before began.
timer_wake(dt) ==
    /\ ~Halted
    /\ scan.pc = "timer"
    /\ ~LessU64(dt, Limbs(50))
    /\ now' = AddU64(now, dt)
    /\ scan' = [scan EXCEPT !.pc = "strobe", !.i = 1, !.j = 1,
                            !.cycle = @ + 1, !.emitted = <<>>]
    /\ UNCHANGED pinVars
    /\ UNCHANGED <<bus, matrix, note_first, note_on, ped, pedal_pin, queue,
                   enqueued, handed, usb, enabled, received, wire, pending, mon, evs>>

-----------------------------------------------------------------------------
(* geode_midi.rs: midi_task, the reconnect wrapper *)

\* midi_task has the executor from its first poll until it awaits something
TaskRunning ==
    usb.pc \in {"task_loop", "task_connected", "task_session"}

\* line 119: log::info!("Connected"), at the first poll and at every
\* iteration after it
task_log_connected ==
    /\ ~Halted
    /\ \/ usb.pc = "task_spawned" /\ ScanYielded
       \/ usb.pc = "task_loop"
    /\ usb' = [usb EXCEPT !.pc = "task_connected"]
    /\ UNCHANGED pinVars
    /\ UNCHANGED <<bus, matrix, scan, note_first, note_on, now, ped, pedal_pin,
                   queue, enqueued, handed, enabled, received, wire, pending,
                   mon, evs>>

\* line 120: `midi_session(&mut midi);` makes the session's future and drops
\* it at the end of the statement: there is no .await, so the future is
\* never polled and nothing of midi_session's body runs
task_session ==
    /\ ~Halted
    /\ usb.pc = "task_connected"
    /\ usb' = [usb EXCEPT !.pc = "task_session"]
    /\ UNCHANGED pinVars
    /\ UNCHANGED <<bus, matrix, scan, note_first, note_on, now, ped, pedal_pin,
                   queue, enqueued, handed, enabled, received, wire, pending,
                   mon, evs>>

\* line 121: log::info!("Disconnected"), and the loop begins again
task_log_disconnected ==
    /\ ~Halted
    /\ usb.pc = "task_session"
    /\ usb' = [usb EXCEPT !.pc = "task_loop"]
    /\ UNCHANGED pinVars
    /\ UNCHANGED <<bus, matrix, scan, note_first, note_on, now, ped, pedal_pin,
                   queue, enqueued, handed, enabled, received, wire, pending,
                   mon, evs>>

-----------------------------------------------------------------------------
(* pins.rs: the I2C bus under the driver calls of a strobe *)

\* The driver is moved into scan (matrix.rs line 98), so scan alone makes
\* driver calls; the calls are not async.  `call` is the call under way,
\* `todo` the extenders it has still to talk to, `handles` the extenders for
\* which an MCP23017 made by extender! is alive, `locks` the transfers that
\* hold the bus, `step` the number of calls of this strobe made, and `done`
\* the cycle and column of the last strobe whose calls all returned.
BusIdle ==
    [pc |-> "idle", call |-> "none", todo |-> <<>>, handles |-> {},
     locks |-> 0, used |-> FALSE, step |-> 0, done |-> <<0, 0>>]

\* The strobe's calls made in another order.
StrobeCalls_read_first == <<"read_all", "set_output", "set_input">>

\* the three calls of a strobe, in order (matrix.rs lines 126-128)
StrobeCalls == <<"set_output", "read_all", "set_input">>

\* The extenders a call talks to: read_all each of them in turn, a per-pin
\* call the extender of its pin, or none for an on-board pin.
ExtendersOf(call) ==
    LET pin == Resolve(tp, matrix.col_pins[scan.i])
    IN  IF call = "read_all" THEN [k \in 1 .. N_PIN_EXTENDERS |-> k - 1]
        ELSE IF pin.kind = "Extended" THEN <<pin.ext_id>> ELSE <<>>

\* scan enters the next driver call of the strobe
driver_call ==
    /\ ~Halted
    /\ scan.pc = "strobe"
    /\ bus.pc = "idle"
    /\ bus.done # <<scan.cycle, scan.i>>
    /\ LET call == StrobeCalls[bus.step + 1]
       IN  bus' = [bus EXCEPT !.pc = "call", !.call = call,
                              !.todo = ExtendersOf(call), !.step = @ + 1]
    /\ UNCHANGED pinVars
    /\ UNCHANGED <<matrix, scan, note_first, note_on, now, ped, pedal_pin,
                   queue, enqueued, handed, usb, enabled, received, wire,
                   pending, mon, evs>>

\* extender!(self, i) keeping its MCP23017 after the statement.
extender_drop_late ==
    /\ ~Halted
    /\ bus.pc = "handle"
    /\ bus.used
    /\ bus' = [bus EXCEPT !.pc = "call", !.todo = Tail(@), !.used = FALSE]
    /\ UNCHANGED pinVars
    /\ UNCHANGED <<matrix, scan, note_first, note_on, now, ped, pedal_pin,
                   queue, enqueued, handed, usb, enabled, received, wire,
                   pending, mon, evs>>

\* extender!(self, i): a new MCP23017 on a proxy of the bus
extender_new ==
    /\ ~Halted
    /\ bus.pc = "call"
    /\ bus.todo # <<>>
    /\ bus' = [bus EXCEPT !.pc = "handle", !.handles = @ \cup {Head(bus.todo)},
                          !.used = FALSE]
    /\ UNCHANGED pinVars
    /\ UNCHANGED <<matrix, scan, note_first, note_on, now, ped, pedal_pin,
                   queue, enqueued, handed, usb, enabled, received, wire,
                   pending, mon, evs>>

\* the MCP23017 starts a transfer: the proxy locks the bus for it
transfer_begin ==
    /\ ~Halted
    /\ bus.pc = "handle"
    /\ bus' = [bus EXCEPT !.pc = "transfer", !.locks = @ + 1]
    /\ UNCHANGED pinVars
    /\ UNCHANGED <<matrix, scan, note_first, note_on, now, ped, pedal_pin,
                   queue, enqueued, handed, usb, enabled, received, wire,
                   pending, mon, evs>>

\* the transfer ends and the bus is unlocked.  If it failed, `?` returns the
\* error, the MCP23017 is dropped on the way out, and unwrap panics.
transfer_end(ok) ==
    /\ ~Halted
    /\ bus.pc = "transfer"
    /\ IF ok
       THEN /\ bus' = [bus EXCEPT !.pc = "handle", !.locks = @ - 1,
                                  !.used = TRUE]
            /\ scan' = scan
       ELSE /\ bus' = [bus EXCEPT !.pc = "idle", !.locks = @ - 1,
                                  !.handles = @ \ {Head(bus.todo)},
                                  !.todo = <<>>]
            /\ scan' = [scan EXCEPT !.pc = "panicked",
                                    !.halt = <<bus.call>> \o unwrap_Err]
    /\ UNCHANGED pinVars
    /\ UNCHANGED <<matrix, note_first, note_on, now, ped, pedal_pin,
                   queue, enqueued, handed, usb, enabled, received, wire,
                   pending, mon, evs>>

\* the MCP23017 is dropped: at the end of the statement that made it
\* (write_all, the per-pin calls) or of the loop body (read_all)
extender_drop ==
    /\ ~Halted
    /\ bus.pc = "handle"
    /\ bus.used
    /\ bus' = [bus EXCEPT !.pc = "call", !.handles = @ \ {Head(bus.todo)},
                          !.todo = Tail(@), !.used = FALSE]
    /\ UNCHANGED pinVars
    /\ UNCHANGED <<matrix, scan, note_first, note_on, now, ped, pedal_pin,
                   queue, enqueued, handed, usb, enabled, received, wire,
                   pending, mon, evs>>

\* the driver call returns Ok to scan: set_output and set_input have set the
\* direction of the column's pin
driver_return ==
    /\ ~Halted
    /\ bus.pc = "call"
    /\ bus.todo = <<>>
    /\ bus' = [bus EXCEPT
                 !.pc = "idle", !.call = "none",
                 !.step = IF @ = Len(StrobeCalls) THEN 0 ELSE @,
                 !.done = IF bus.step = Len(StrobeCalls)
                          THEN <<scan.cycle, scan.i>> ELSE @]
    /\ LET pin == Resolve(tp, matrix.col_pins[scan.i])
           out == bus.call = "set_output"
       IN  IF bus.call = "read_all"
           THEN UNCHANGED <<ext_dir, pins_dir>>
           ELSE /\ ext_dir' = ExtDirAfter(ext_dir, pin, out)
                /\ pins_dir' = PinsDirAfter(pins_dir, pin, out)
    /\ UNCHANGED <<tp, ext_pullup, ext_olat, pins_pull, pins_level, written,
                   last, nops, overflow_checks, vel>>
    /\ UNCHANGED <<matrix, scan, note_first, note_on, now, ped, pedal_pin,
                   queue, enqueued, handed, usb, enabled, received, wire,
                   pending, mon, evs>>

-----------------------------------------------------------------------------
(* matrix.rs: the pedal monitor *)

\* `let (off_val, on_val) = match norm_state { NO => (0, 64), NC => (64, 0) }`
\* off_val taken from on_val's side of the match.
off_val_as_on(norm_state) == IF norm_state = "NO" THEN 64 ELSE 0

\* on_val not following the polarity.
on_val_fixed(norm_state) == 64

off_val(norm_state) == IF norm_state = "NO" THEN 0 ELSE 64
on_val(norm_state) == IF norm_state = "NO" THEN 64 ELSE 0

\* pedal: wait_for_low returns, controller(pedal, on_val) is sent
pedal_low ==
    /\ ~Halted /\ ScanYielded
    /\ ped.pc = "wait_for_low"
    /\ ~pedal_pin
    /\ send("pedal", ped.chan,
            controller_msg(ped.chan, ped.pedal, on_val(ped.norm_state)))
    /\ ped' = [ped EXCEPT !.pc = IF SendReturns THEN "wait_for_high"
                                 ELSE "send_on"]
    /\ UNCHANGED pinVars
    /\ UNCHANGED <<bus, matrix, scan, note_first, note_on, now, pedal_pin, usb,
                   enabled, received, wire, mon, evs>>

\* pedal: wait_for_high returns, controller(pedal, off_val) is sent
pedal_high ==
    /\ ~Halted /\ ScanYielded
    /\ ped.pc = "wait_for_high"
    /\ pedal_pin
    /\ send("pedal", ped.chan,
            controller_msg(ped.chan, ped.pedal, off_val(ped.norm_state)))
    /\ ped' = [ped EXCEPT !.pc = IF SendReturns THEN "wait_for_low"
                                 ELSE "send_off"]
    /\ UNCHANGED pinVars
    /\ UNCHANGED <<bus, matrix, scan, note_first, note_on, now, pedal_pin, usb,
                   enabled, received, wire, mon, evs>>

\* pedal suspended in controller(): the send completes once a slot is free
pedal_resume ==
    /\ ~Halted /\ ScanYielded
    /\ ped.pc \in {"send_on", "send_off"}
    /\ send_resume("pedal")
    /\ ped' = [ped EXCEPT !.pc = IF @ = "send_on" THEN "wait_for_high"
                                 ELSE "wait_for_low"]
    /\ UNCHANGED pinVars
    /\ UNCHANGED <<bus, matrix, scan, note_first, note_on, now, pedal_pin, usb,
                   enabled, received, wire, mon, evs>>

\* The player moves the pedal: its switch opens or closes.
pedal_move ==
    /\ ScanYielded
    /\ pedal_pin' = ~pedal_pin
    /\ UNCHANGED pinVars
    /\ UNCHANGED <<bus, matrix, scan, note_first, note_on, now, ped, queue,
                   enqueued, handed, usb, enabled, received, wire, pending, mon, evs>>

-----------------------------------------------------------------------------
(* midi/mod.rs: the public MidiChannel interface, called directly *)

\* MidiChannel::note_on
note_on_call(chan, note, velocity) ==
    /\ ~Halted /\ ScanYielded
    /\ ~Suspended("api")
    /\ send("api", chan, note_on_msg(chan, note, velocity))
    /\ UNCHANGED pinVars
    /\ UNCHANGED <<bus, matrix, scan, note_first, note_on, now, ped, pedal_pin,
                   usb, enabled, received, wire, mon, evs>>

\* MidiChannel::note_off
note_off_call(chan, note, velocity) ==
    /\ ~Halted /\ ScanYielded
    /\ ~Suspended("api")
    /\ send("api", chan, note_off_msg(chan, note, velocity))
    /\ UNCHANGED pinVars
    /\ UNCHANGED <<bus, matrix, scan, note_first, note_on, now, ped, pedal_pin,
                   usb, enabled, received, wire, mon, evs>>

\* MidiChannel::controller
controller_call(chan, ctrl, value) ==
    /\ ~Halted /\ ScanYielded
    /\ ~Suspended("api")
    /\ send("api", chan, controller_msg(chan, ctrl, value))
    /\ UNCHANGED pinVars
    /\ UNCHANGED <<bus, matrix, scan, note_first, note_on, now, ped, pedal_pin,
                   usb, enabled, received, wire, mon, evs>>

-----------------------------------------------------------------------------
(* The firmware at start-up *)

\* geode_piano.rs piano_task: one column, three rows, a fixed-velocity key
\* on each
MatFixed3 ==
    KeyMatrix_new(<<23>>, <<20, 15, 4>>,
                  <<<<N(C4, 64)>>, <<N(D4, 64)>>, <<N(E4, 64)>>>>, "Linear")
\* two fixed-velocity keys of different velocities
MatFixed2 ==
    KeyMatrix_new(<<23>>, <<20, 15>>, <<<<N(C4, 1)>>, <<N(D4, 127)>>>>,
                  "Linear")
\* one two-switch key, its first contact in the earlier row
MatTwo12(prof) ==
    KeyMatrix_new(<<23>>, <<20, 15>>, <<<<N1(C4)>>, <<N2(C4)>>>>, prof)
\* one two-switch key, its second contact in the earlier row
MatTwo21(prof) ==
    KeyMatrix_new(<<23>>, <<20, 15>>, <<<<N2(C4)>>, <<N1(C4)>>>>, prof)
\* piano_firmware.rs piano_task in small: two columns, a two-switch key
\* with a contact in each, and an unused cell in each
MatCols(prof) ==
    KeyMatrix_new(<<32, 33>>, <<1, 2>>,
                  <<<<N1(D4), NOP>>, <<NOP, N2(D4)>>>>, prof)
\* two columns of one fixed-velocity key each
MatRow(prof) ==
    KeyMatrix_new(<<32, 33>>, <<1>>, <<<<N(C4, 64), N(D4, 64)>>>>, prof)
\* a single fixed-velocity key
MatOne == KeyMatrix_new(<<23>>, <<20>>, <<<<N(C4, 64)>>>>, "Linear")

\* Keymaps that name one note in several cells: two fixed-velocity cells,
\* and a two-switch pair together with a fixed-velocity cell.
MatSame2 ==
    KeyMatrix_new(<<23>>, <<20, 15>>, <<<<N(C4, 64)>>, <<N(C4, 100)>>>>,
                  "Linear")
MatSame3(prof) ==
    KeyMatrix_new(<<23>>, <<20, 15, 4>>,
                  <<<<N1(C4)>>, <<N2(C4)>>, <<N(C4, 64)>>>>, prof)

SharedMatrices == {MatSame2, MatSame3("Linear"), MatSame3("Heavy")}

ScanMatrices ==
    {MatFixed3, MatFixed2, MatRow("Linear")}
        \cup {MatTwo12(prof) : prof \in VelocityProfile}
        \cup {MatTwo21(prof) : prof \in VelocityProfile}
        \cup {MatCols(prof) : prof \in VelocityProfile}

\* Times between the starts of two scan cycles, in microseconds: the
\* Timer's 50, one that lands between the profiles' branch points, and 2^31
Dts == {Limbs(50), Limbs(30000), <<0, 0, 32768, 0>>}

\* Only a two-switch key reads the value of a timestamp.
ReadsClock(m) ==
    \E j \in 1 .. Len(m.row_pins), i \in 1 .. Len(m.col_pins) :
        m.keymap[j][i].kind = "N2"
DtsOf(m) == IF ReadsClock(m) THEN Dts ELSE {Limbs(50)}

\* The tasks as main spawns them: none has run yet and the queue is empty.
InitTasksWith(m, norm_state, transport) ==
    /\ matrix = m
    /\ scan = [pc |-> "start", i |-> 1, j |-> 1, mask |-> {}, input |-> {},
               closed |-> {},
               cycle |-> 1, chan |-> MidiChannel_new(0), halt |-> <<>>,
               emitted |-> <<>>]
    /\ note_first = [n \in KeymapNotes(m) |-> None]
    /\ note_on = [n \in KeymapNotes(m) |-> None]
    /\ now = Limbs(0)
    /\ ped = [pc |-> "wait_for_low", pedal |-> SustainPedal,
              norm_state |-> norm_state, chan |-> MidiChannel_new(0)]
    /\ pedal_pin = (norm_state = "NO")
    /\ queue = <<>>
    /\ enqueued = <<>>
    /\ handed = 0
    /\ usb = [pc |-> transport, msg |-> None, failed |-> {}, kept |-> {}]
    /\ received = <<>>
    /\ wire = <<>>
    /\ pending = [p \in Producers |-> None]
    /\ mon = [n \in KeymapNotes(m) |-> MonStart]
    /\ evs = [n \in KeymapNotes(m) |-> <<>>]
    /\ bus = BusIdle

\* usb.rs: the transport is midi_fut, which begins in wait_connection
InitTasks(m, norm_state) == InitTasksWith(m, norm_state, "wait_connection")

\* the scanner, the pedal monitor and the transport are not part of the pin
\* driver's specifications
TasksIdle == InitTasks(MatOne, "NO") /\ enabled = FALSE

-----------------------------------------------------------------------------
(* Specifications *)

\* Call sequences of up to MaxOps calls on a constructed driver.
Init == InitPins /\ vel = VelIdle /\ TasksIdle

Bounded == nops < MaxOps

Next ==
    \/ \E addr \in Addrs : Bounded /\ set_input(addr)
    \/ \E addr \in Addrs : Bounded /\ set_output(addr)
    \/ \E addr \in Addrs, pull \in Pulls : Bounded /\ set_pull(addr, pull)
    \/ \E val \in Vals, fail_at \in FailAt : Bounded /\ write_all(val, fail_at)
    \/ \E env \in Envs, fail_at \in FailAt : Bounded /\ read_all(env, fail_at)

Spec == Init /\ [][Next]_vars

\* Sequences of per-pin calls on every usable address of a driver constructed
\* with the unsafe pins disabled.
InitUsable == InitPins /\ tp.disable_unsafe_pins /\ vel = VelIdle /\ TasksIdle

NextUsable ==
    \/ \E addr \in UsablePins : Bounded /\ set_input(addr)
    \/ \E addr \in UsablePins : Bounded /\ set_output(addr)
    \/ \E addr \in UsablePins, pull \in Pulls : Bounded /\ set_pull(addr, pull)

SpecUsable == InitUsable /\ [][NextUsable]_vars

\* Every possible first call on a freshly constructed driver.
Fresh == last.op = "new"

NextFirstCall ==
    \/ \E addr \in U8 : Fresh /\ set_input(addr)
    \/ \E addr \in U8 : Fresh /\ set_output(addr)
    \/ \E addr \in U8, pull \in Pulls : Fresh /\ set_pull(addr, pull)
    \/ \E val \in AllVals, fail_at \in FailAt : Fresh /\ write_all(val, fail_at)
    \/ \E env \in AllEnvs, fail_at \in FailAt : Fresh /\ read_all(env, fail_at)

SpecFirstCall == Init /\ [][NextFirstCall]_vars

\* Key presses of the scanner under each velocity profile; the firmware
\* constructs its driver with the unsafe pins disabled.
InitVel ==
    /\ InitPins
    /\ tp.disable_unsafe_pins
    /\ \E prof \in VelocityProfile : vel = VelStart(prof)
    /\ TasksIdle

NextVel == \E dur \in Durations : press(dur)

SpecVel == InitVel /\ [][NextVel]_vars

\* The firmware's driver: unsafe pins disabled, the build either way.
InitFirmware ==
    /\ InitPins
    /\ tp.disable_unsafe_pins
    /\ vel = VelIdle

Room == Handed < MaxMsgs

\* The scanner over each key matrix, with the host attached throughout and
\* the transport draining the queue.
InitScan ==
    /\ InitFirmware
    /\ \E m \in ScanMatrices : InitTasks(m, "NO")
    /\ enabled = TRUE

NextScan ==
    \/ \E ok \in BOOLEAN : scan_start(ok)
    \/ \E closed \in SUBSET (1 .. N_ROWS), fail \in StrobeFail :
          strobe(closed, fail)
    \/ Room /\ scan_cell
    \/ scan_resume
    \/ \E dt \in DtsOf(matrix) : scan.cycle < MaxCycles /\ timer_wake(dt)
    \/ wait_connection
    \/ receive
    \/ write_packet

SpecScan == InitScan /\ [][NextScan]_vars

\* The whole firmware around the queue: the scanner over a one-key matrix
\* and the pedal monitor sending, the transport receiving, the host enabling
\* and disabling the endpoint.
\* The pedal is a normally open switch (main passes `true`); nothing here
\* computes a velocity, so the build's overflow handling plays no part.
InitMidi ==
    /\ InitFirmware
    /\ ~overflow_checks
    /\ InitTasks(MatOne, "NO")
    /\ enabled = FALSE

\* The rows of the strobed column whose (fixed-velocity) key is sounding
Sounding ==
    {j \in 1 .. N_ROWS : is_some(note_on[matrix.keymap[j][scan.i].note])}

\* Once MaxMsgs messages have been handed over the player holds still: the
\* keys stay as they are and the pedal stays where it is.
NextMidi ==
    \/ \E ok \in BOOLEAN : scan_start(ok)
    \/ \E closed \in SUBSET (1 .. N_ROWS), fail \in StrobeFail :
          (Room \/ closed = Sounding) /\ strobe(closed, fail)
    \/ scan_cell
    \/ scan_resume
    \/ \E dt \in DtsOf(matrix) : scan.cycle < MaxCycles /\ timer_wake(dt)
    \/ Room /\ pedal_low
    \/ Room /\ pedal_high
    \/ pedal_resume
    \/ pedal_move
    \/ wait_connection
    \/ receive
    \/ write_packet
    \/ usb_flip

SpecMidi == InitMidi /\ [][NextMidi]_vars

\* The scanner runs on between two suspension points; the executor polls
\* every woken task, so the transport's steps are taken when they stay
\* possible, and a suspended send, woken at every receive, gets its slot
\* when slots keep coming free.
FairMidi ==
    /\ WF_vars(\E closed \in SUBSET (1 .. N_ROWS), fail \in StrobeFail :
                  (Room \/ closed = Sounding) /\ strobe(closed, fail))
    /\ WF_vars(scan_cell)
    /\ WF_vars(wait_connection)
    /\ WF_vars(receive)
    /\ WF_vars(write_packet)
    /\ SF_vars(scan_resume)
    /\ SF_vars(pedal_resume)

SpecMidiFair == InitMidi /\ [][NextMidi]_vars /\ FairMidi

\* The scanner with read_all returning any value of a sample: one bit set,
\* one bit clear, none, all.  The transport is not started: a send on the
\* full queue stays suspended.
InitRead ==
    /\ InitFirmware
    /\ ~overflow_checks
    /\ \E m \in {MatFixed2, MatCols("Linear")} : InitTasks(m, "NO")
    /\ enabled = TRUE

NextRead ==
    \/ scan_start(TRUE)
    \/ \E input \in AllVals : strobe_value(input)
    \/ Room /\ scan_cell
    \/ scan.cycle < MaxCycles /\ timer_wake(Limbs(50))

SpecRead == InitRead /\ [][NextRead]_vars

\* The scanner over keymaps whose cells share a note.
InitShared ==
    /\ InitFirmware
    /\ \E m \in SharedMatrices : InitTasks(m, "NO")
    /\ enabled = TRUE

SpecShared == InitShared /\ [][NextScan]_vars

\* The firmware with the strobe's driver calls taken apart into the
\* handles and transfers on the I2C bus; the strobe's effect on the pins and
\* its mask follow once its three calls have returned.
InitBus ==
    /\ InitFirmware
    /\ ~overflow_checks
    /\ \E m \in {MatOne, MatRow("Linear")} : InitTasks(m, "NO")
    /\ enabled = TRUE

NextBus ==
    \/ scan_start(TRUE)
    \/ driver_call
    \/ extender_new
    \/ transfer_begin
    \/ \E ok \in BOOLEAN : transfer_end(ok)
    \/ extender_drop
    \/ driver_return
    \/ \E closed \in SUBSET (1 .. N_ROWS) :
          /\ bus.done = <<scan.cycle, scan.i>>
          /\ Room \/ closed = Sounding
          /\ strobe(closed, "none")
    \/ scan_cell
    \/ scan_resume
    \/ \E dt \in DtsOf(matrix) : scan.cycle < MaxCycles /\ timer_wake(dt)
    \/ Room /\ pedal_low
    \/ Room /\ pedal_high
    \/ pedal_resume
    \/ pedal_move
    \/ wait_connection
    \/ receive
    \/ write_packet

SpecBus == InitBus /\ [][NextBus]_vars

\* The pedal monitor of either polarity with the transport, the host
\* attaching and detaching; the scanner is not started.
InitPedal ==
    /\ InitFirmware
    /\ ~overflow_checks
    /\ \E norm_state \in {"NO", "NC"} : InitTasks(MatOne, norm_state)
    /\ enabled \in BOOLEAN

NextPedal ==
    \/ Room /\ pedal_low
    \/ Room /\ pedal_high
    \/ pedal_resume
    \/ pedal_move
    \/ wait_connection
    \/ receive
    \/ write_packet
    \/ usb_flip

SpecPedal == InitPedal /\ [][NextPedal]_vars

\* The pedal monitor with midi_task as the transport.  The other tasks run
\* only while midi_task does not hold the executor.
InitTask ==
    /\ InitFirmware
    /\ ~overflow_checks
    /\ \E norm_state \in {"NO", "NC"} :
          InitTasksWith(MatOne, norm_state, "task_spawned")
    /\ enabled = TRUE

NextTask ==
    \/ task_log_connected
    \/ task_session
    \/ task_log_disconnected
    \/ ~TaskRunning /\ Room /\ pedal_low
    \/ ~TaskRunning /\ Room /\ pedal_high
    \/ ~TaskRunning /\ pedal_move
    \/ usb_flip

SpecTask == InitTask /\ [][NextTask]_vars

\* One call of the public MidiChannel interface while the pipeline is idle,
\* on a channel made with any u8, followed by the transport's handling of it.
NoteSample == {0, C4, 127}
VelocitySample == {0, 64, 127, 255}
ValueSample == {0, 64}

InitPacket ==
    /\ InitFirmware
    /\ ~overflow_checks
    /\ InitTasks(MatOne, "NO")
    /\ enabled = TRUE

NextPacket ==
    \/ \E c \in U8, note \in NoteSample, velocity \in VelocitySample :
          enqueued = <<>> /\ note_on_call(MidiChannel_new(c), note, velocity)
    \/ \E c \in U8, note \in NoteSample, velocity \in VelocitySample :
          enqueued = <<>> /\ note_off_call(MidiChannel_new(c), note, velocity)
    \/ \E c \in U8, value \in ValueSample :
          enqueued = <<>>
              /\ controller_call(MidiChannel_new(c), SustainPedal, value)
    \/ wait_connection
    \/ receive
    \/ write_packet

SpecPacket == InitPacket /\ [][NextPacket]_vars

-----------------------------------------------------------------------------
(* Properties of the pin driver *)

ConfigOps == {"set_input", "set_output", "set_pull"}
\* the usable addresses, 0 .. n_total_pins - 1
UsableAddrs == 0 .. (tp.n_total_pins - 1)
\* the last call was a per-pin call on a usable address
OnUsable == last.op \in ConfigOps /\ last.addr \in UsableAddrs
ValidKinds == {"Extended", "Onboard"}

\* The address a physical pin is reached by, or 255 for a pin no address
\* reaches: the inverse of the translation, written out independently.
InverseAddr(t, phys) ==
    IF ~t.disable_unsafe_pins THEN phys
    ELSE IF phys >= N_EXTENDED_PINS
         THEN phys - UNSAFE_PER_EXTENDER * N_PIN_EXTENDERS
         ELSE LET e == phys \div PINS_PER_EXTENDER
                  l == phys % PINS_PER_EXTENDER
              IN  IF l < 7 THEN e * t.usable_pins_per_extender + l
                  ELSE IF l > 7 /\ l < 15
                       THEN e * t.usable_pins_per_extender + l - 1
                       ELSE 255

\* C1: under either exclusion policy, a per-pin call on an address in
\* [0, N) resolves to a valid physical pin, no other address in [0, N)
\* resolves to the same pin, and the inverse mapping applied to that pin
\* gives the address back.
C1_Bijection ==
    OnUsable =>
        /\ last.target.kind \in ValidKinds
        /\ \A b \in UsableAddrs \ {last.addr} : Resolve(tp, b) # last.target
        /\ InverseAddr(tp, PhysOf(last.target)) = last.addr

C1_Witness ==
    /\ tp.disable_unsafe_pins
    /\ last.op = "set_input" /\ last.addr = 21 /\ last.result = "Ok"
    /\ last.target = [kind |-> "Extended", ext_id |-> 1, loc_pin |-> 8]

\* C2: with exclusion enabled N is 14 usable pins per extender times the
\* number of extenders plus the on-board pins, no address in [0, N)
\* resolves to local pin 7 (GPA7) or 15 (GPB7) of an extender, and the
\* addresses from the end of the extender range on resolve to the on-board
\* pins in order.
C2_UnsafeExcluded ==
    tp.disable_unsafe_pins =>
        /\ tp.n_total_pins = 14 * N_PIN_EXTENDERS + N_REGULAR_PINS
        /\ OnUsable =>
              /\ ~(last.target.kind = "Extended"
                     /\ last.target.loc_pin \in {7, 15})
              /\ last.addr >= 14 * N_PIN_EXTENDERS =>
                    last.target = [kind |-> "Onboard",
                                   idx |-> last.addr - 14 * N_PIN_EXTENDERS]
              /\ last.addr < 14 * N_PIN_EXTENDERS =>
                    last.target.kind = "Extended"

C2_Witness ==
    /\ tp.disable_unsafe_pins
    /\ last.op = "set_output" /\ last.addr = 28 /\ last.result = "Ok"
    /\ last.target = [kind |-> "Onboard", idx |-> 0]

\* The hardware registers as construction leaves them.
AsConstructed ==
    /\ ext_dir = (IF tp.disable_unsafe_pins THEN NewExtDir(Len(UnsafeAddrs))
                  ELSE NewExtDir(0))
    /\ ext_pullup = [i \in Extenders |-> {}]
    /\ ext_olat = [i \in Extenders |-> {}]
    /\ pins_dir = {}
    /\ pins_pull = [p \in RegularPins |-> "None"]
    /\ pins_level = {}

\* C3: a first per-pin call on an 8-bit address a >= N fails with
\* InvalidPin, creates no extender handle (no bus transaction) and leaves
\* every mode and pull as construction left it.
C3_InvalidPinRejected ==
    (last.op \in ConfigOps /\ last.addr >= tp.n_total_pins) =>
        /\ last.result = "InvalidPin"
        /\ last.handles = 0
        /\ AsConstructed

\* the last call was set_pull(a, Down) on a usable address
PullDownOnUsable == OnUsable /\ last.op = "set_pull" /\ last.pull = "Down"

\* C4 as stated: set_pull(a, Down) on an extender-backed usable address
\* returns an UnsupportedPull error (the task goes on) and changes no pull;
\* on an on-board pin it succeeds.
C4_ReturnsUnsupportedPull ==
    PullDownOnUsable =>
        IF last.target.kind = "Extended"
        THEN last.result = "UnsupportedPull" /\ AsConstructed
        ELSE last.result = "Ok"

\* C4, amended: set_pull(a, Down) on an extender-backed usable address
\* panics (unimplemented!) before any extender handle is created and
\* changes no pull; on an on-board pin it succeeds and sets the pull-down.
C4_PullDownPanics ==
    PullDownOnUsable =>
        IF last.target.kind = "Extended"
        THEN last.result = "Panic" /\ last.handles = 0 /\ AsConstructed
        ELSE /\ last.target.kind = "Onboard"
             /\ last.result = "Ok"
             /\ pins_pull[last.target.idx] = "Down"

C4_Witness ==
    /\ PullDownOnUsable
    /\ last.target.kind = "Extended"
    /\ last.result = "Panic"

\* C5: after write_all(m), for every address a in [0, N) bit a of m is the
\* level latched on the physical pin a resolves to, and with exclusion
\* enabled no latch of an excluded pin (local pin 7 or 15) is set.
C5_WriteMatchesTranslation ==
    (last.op = "write_all" /\ last.result = "Ok") =>
        /\ \A a \in UsableAddrs :
              (a \in last.val) <=> (PhysOf(Resolve(tp, a)) \in Latched)
        /\ tp.disable_unsafe_pins =>
              \A i \in Extenders : ext_olat[i] \cap {7, 15} = {}

\* C6: read_all() returns, at every bit a in [0, N), the level of the
\* physical pin a resolves to, and no bit at or above N.
C6_ReadMatchesTranslation ==
    (last.op = "read_all" /\ last.result = "Ok") =>
        /\ \A a \in UsableAddrs :
              (a \in last.ret) <=> (PhysOf(Resolve(tp, a)) \in last.levels)
        /\ last.ret \subseteq UsableAddrs

\* C7: when every pin reads the level last written to it, a read_all()
\* after a successful write_all(m) returns m restricted to [0, N).
C7_RoundTrip ==
    (last.op = "read_all" /\ last.result = "Ok" /\ written.some
        /\ last.levels = Latched) =>
        last.ret = written.val \cap UsableAddrs

-----------------------------------------------------------------------------
(* Properties of the velocity profiles *)

\* C8: every velocity the scanner computes and hands to note_on is in
\* [1, 127], for each profile and every duration.
C8_VelocityInRange == vel.n >= 1 => vel.velocity \in 1 .. 127

\* C9: of two presses under one profile, the longer one never gets the
\* higher velocity.
C9_Monotone ==
    (vel.n = 2 /\ LessU64(vel.prev_dur, vel.dur)) =>
        vel.prev_velocity >= vel.velocity

\* The profiles as the specification writes them, over the unbounded
\* integers: a duration of 2^31 us or more is past every clamp.
FormulaLinear(us) ==
    IF Fits31(us) THEN Max((120900 - Val31(us)) \div 1000, 5) ELSE 5

FormulaHeavy(us) ==
    IF Fits31(us) /\ Val31(us) <= 17000
    THEN (113000 - Val31(us)) \div 1000
    ELSE (127000 - (IF Fits31(us) THEN Min(Val31(us), 190000) ELSE 190000)
                       \div 2 - 22000) \div 1000

FormulaLight(us) ==
    IF Fits31(us) /\ Val31(us) <= 60000
    THEN Min(127, (135000 - (Val31(us) * 6) \div 5) \div 1000)
    ELSE 127 - (IF Fits31(us) THEN Min(Val31(us), 240000) ELSE 240000)
                   \div 4000 - 60

FormulaOf(prof, us) ==
    CASE prof = "Linear" -> FormulaLinear(us)
      [] prof = "Heavy" -> FormulaHeavy(us)
      [] prof = "Light" -> FormulaLight(us)

\* C10: the velocity computed for a duration is the value of the
\* specification's formula for the configured profile.
C10_MatchesFormula ==
    vel.n >= 1 => vel.velocity = FormulaOf(vel.prof, vel.dur)


-----------------------------------------------------------------------------
(* Properties of the scanner *)

\* The events a key is expected to put on the queue: channel 0, the note,
\* the velocity.
NoteOnEv(note, velocity) ==
    [msg |-> [type |-> "Note", on |-> TRUE, note |-> note,
              velocity |-> velocity],
     channel |-> 0]
NoteOffEv(note) ==
    [msg |-> [type |-> "Note", on |-> FALSE, note |-> note, velocity |-> 0],
     channel |-> 0]

\* The cells of the keymap of one kind
CellsOf(kind) ==
    {c \in {matrix.keymap[j][i] : j \in 1 .. N_ROWS, i \in 1 .. N_COLS} :
        c.kind = kind}

\* Every message the scanner has handed to the queue for a note, oldest
\* first: those the queue accepted and the one a suspended send holds.
ScanHanded(note) ==
    LET mine(e) == e.by = "scan" /\ e.m.msg.type = "Note"
                   /\ e.m.msg.note = note
        ms(entries) == [k \in 1 .. Len(entries) |-> entries[k].m]
    IN  ms(SelectSeq(enqueued \o pending["scan"], mine))

\* evs[note] is the tail of what the queue was handed for the note
EndsWith(all, tail) ==
    /\ Len(tail) <= Len(all)
    /\ SubSeq(all, Len(all) - Len(tail) + 1, Len(all)) = tail

\* C11: a fixed-velocity key that has read active in k >= 1 consecutive
\* cycles has put exactly one Note On with its configured velocity on the
\* queue, from its first active read on and with nothing after it; once it
\* reads inactive, exactly one Note Off follows, from that read on; a key
\* that never read active has put nothing.
C11_FixedVelocityPress ==
    \A c \in CellsOf("N") :
        /\ EndsWith(ScanHanded(c.note), evs[c.note])
        /\ mon[c.note].ph = "Idle" =>
              /\ evs[c.note] = <<>>
              /\ ScanHanded(c.note) = <<>>
        /\ mon[c.note].ph = "Down" =>
              evs[c.note] = <<NoteOnEv(c.note, c.velocity)>>
        /\ mon[c.note].ph = "Lifted" =>
              evs[c.note] = <<NoteOnEv(c.note, c.velocity), NoteOffEv(c.note)>>

\* a key held for two cycles and let go in the third
C11_Witness ==
    \E c \in CellsOf("N") :
        /\ mon[c.note].ph = "Lifted"
        /\ mon[c.note].k = 2
        /\ ScanHanded(c.note) = <<NoteOnEv(c.note, c.velocity), NoteOffEv(c.note)>>


\* C12: a two-switch key whose first contact has read active for any number
\* of cycles, and then inactive, without its second contact reading active
\* in between, has put no event on the queue, neither during the press nor
\* after it, and is back to Idle: both of the note's timestamps are empty.
C12_IncompletePress ==
    \A c \in CellsOf("N1") :
        /\ EndsWith(ScanHanded(c.note), evs[c.note])
        /\ mon[c.note].ph = "Idle" => ScanHanded(c.note) = <<>>
        /\ mon[c.note].ph \in {"Idle", "First", "Aborted"} => evs[c.note] = <<>>
        /\ mon[c.note].ph = "Aborted" =>
              /\ is_none(note_first[c.note])
              /\ is_none(note_on[c.note])

\* a first contact held for two cycles and let go, the second never closed
C12_Witness ==
    \E c \in CellsOf("N1") :
        /\ mon[c.note].ph = "Aborted"
        /\ mon[c.note].k = 2
        /\ ScanHanded(c.note) = <<>>

\* The velocity the configured profile gives for the time from the read that
\* began the press to the read that completed it.
PressVelocity(note) ==
    velocity_of(matrix.velocity_prof, SubU64(mon[note].t1, mon[note].t0)).v

\* C13: a two-switch key whose first contact read active and then its second
\* contact too has put exactly one Note On on the queue, its velocity the
\* configured profile applied to the time since the first touch; once the
\* first contact reads inactive again, exactly one Note Off follows, and
\* nothing else; whichever of the two cells comes first in row order.
C13_CompletePress ==
    \A c \in CellsOf("N1") :
        /\ mon[c.note].ph = "Both" =>
              evs[c.note] = <<NoteOnEv(c.note, PressVelocity(c.note))>>
        /\ mon[c.note].ph = "Released" =>
              evs[c.note] = <<NoteOnEv(c.note, PressVelocity(c.note)),
                              NoteOffEv(c.note)>>


\* The rows scan takes as active in the column it has strobed
ActiveRows ==
    {j \in 1 .. N_ROWS : key_active(scan.mask, matrix.row_pins[j])}

\* Every message the queue has accepted, oldest first
Accepted == [k \in 1 .. Len(enqueued) |-> enqueued[k].m]

\* whether every cell of the (one-column) keymap is a fixed-velocity key
AllFixed == N_COLS = 1 /\ \A j \in 1 .. N_ROWS : matrix.keymap[j][1].kind = "N"

\* C14: the rows scan takes as active are those whose key is closed in the
\* strobed column; and with one column of fixed-velocity keys, closing
\* exactly row r for the first scan cycle and opening it for the second puts
\* exactly Note On(note_r, v_r) and then Note Off(note_r, 0) on the queue,
\* both on channel 0, and no event for any other row.
C14_EndToEnd ==
    /\ scan.pc = "rows" => ActiveRows = scan.closed
    /\ (AllFixed /\ scan.cycle = 2 /\ scan.pc = "timer") =>
          \A r \in 1 .. N_ROWS :
              LET key(j) == matrix.keymap[j][1]
              IN  (/\ mon[key(r).note].ph = "Lifted"
                   /\ \A j \in (1 .. N_ROWS) \ {r} : mon[key(j).note].ph = "Idle")
                  => /\ Accepted = <<NoteOnEv(key(r).note, key(r).velocity),
                                     NoteOffEv(key(r).note)>>
                     /\ pending["scan"] = None

\* piano_task's keymap (C4, D4, E4 at velocity 64): the middle row alone
\* closed for one cycle
C14_Witness ==
    /\ matrix = MatFixed3
    /\ scan.cycle = 2 /\ scan.pc = "timer"
    /\ mon[D4].ph = "Lifted" /\ mon[C4].ph = "Idle" /\ mon[E4].ph = "Idle"
    /\ Accepted = <<NoteOnEv(D4, 64), NoteOffEv(D4)>>


\* ---------------------------------------------------------------------------
\* Properties of the queue and the transport
\* ---------------------------------------------------------------------------

\* The messages of producer p in q, in q's order
By(q, p) == SelectSeq(q, LAMBDA e : e.by = p)

\* The numbers of the messages of q, in q's order
Ids(q) == [k \in 1 .. Len(q) |-> q[k].id]

Increasing(ids) ==
    \A a, b \in 1 .. Len(ids) : a < b => ids[a] < ids[b]

\* The messages a producer has handed over, in hand-over order: those the
\* queue accepted, then the one its suspended send still holds.
HandedBy(p) ==
    By(enqueued, p) \o (IF Suspended(p) THEN pending[p] ELSE <<>>)

\* C15: the transport takes the messages out in the order they went in, and
\* so each producer's messages keep the order that producer sent them in:
\* the scanner's Note On and Note Off of the key alternate, the pedal's
\* pressed and released values alternate, as they were sent.
C15_Fifo ==
    /\ enqueued = received \o queue
    /\ \A p \in Producers :
          /\ Increasing(Ids(HandedBy(p)))
          /\ Increasing(Ids(By(received, p)))
    /\ \A k \in 1 .. Len(By(received, "scan")) :
          By(received, "scan")[k].m.msg.on = (k % 2 = 1)
    /\ \A k \in 1 .. Len(By(received, "pedal")) :
          By(received, "pedal")[k].m.msg.value
              = IF k % 2 = 1 THEN on_val(ped.norm_state)
                             ELSE off_val(ped.norm_state)

\* Two producers' messages were taken out interleaved, two of each.
C15_Witness ==
    /\ Len(received) = 4
    /\ received[1].by # received[2].by
    /\ Len(By(received, "scan")) = 2
    /\ Len(By(received, "pedal")) = 2


\* Every message handed over so far, accepted or still held by its producer
InHand ==
    IdsIn(enqueued) \cup {unwrap(pending[p]).id : p \in {q \in Producers : Suspended(q)}}

\* The queue never holds more than its capacity and nothing handed to send()
\* is dropped or duplicated: the messages numbered 1 .. Handed are exactly
\* those accepted or held, each once, and a held one is not in the queue.
C16_NothingLost ==
    /\ Len(queue) <= MIDI_QUEUE_N
    /\ InHand = 1 .. Handed
    /\ Cardinality(IdsIn(enqueued)) = Len(enqueued)
    /\ \A p \in Producers :
          Suspended(p) => unwrap(pending[p]).id \notin IdsIn(enqueued)
    /\ enqueued = received \o queue

\* A send suspends only on a full queue, and a suspended send ends only by
\* its own message entering the queue.
C16_SuspendsOnFull ==
    \A p \in Producers :
        /\ (~Suspended(p) /\ Suspended(p)') => Len(queue) = MIDI_QUEUE_N
        /\ (Suspended(p) /\ ~Suspended(p)')
              => queue' = Append(queue, unwrap(pending[p]))

\* C16: back-pressure without loss.  The queue holds at most three messages;
\* a producer whose send finds it full suspends, holding its message, and
\* nothing is dropped; while the host stays connected and the device has not
\* halted, the transport keeps taking messages out and every suspended
\* producer gets its message in and proceeds.
C16_BackPressure ==
    /\ []C16_NothingLost
    /\ [][C16_SuspendsOnFull]_vars
    /\ (Suspended("scan") ~> (~Suspended("scan") \/ ~enabled \/ Halted))
    /\ (Suspended("pedal") ~> (~Suspended("pedal") \/ ~enabled \/ Halted))

\* A producer that had suspended on the full queue has since got its message
\* in, and the transport has taken it out.
C16_Witness ==
    \E k \in 1 .. Len(wire) :
        \E e \in {received[i] : i \in 1 .. Len(received)} :
            e.id = wire[k].id /\ e.waited


\* The number of each packet written, in the order written
Written == Ids(wire)

\* The messages taken out whose handling is over: all but the one in flight
Handled ==
    IF usb.pc = "write" THEN SubSeq(received, 1, Len(received) - 1)
    ELSE received

\* Where in q the message numbered id is
PosIn(q, id) == CHOOSE i \in 1 .. Len(q) : q[i].id = id

\* C17: exactly-once consumption.  Every message the queue accepted is taken
\* out at most once, in order, by the one transport; what is taken out is no
\* longer in the queue; no message is written more than once, a message is
\* written only after it was taken out, and the packets are written in the
\* order their messages were taken out.
C17_ExactlyOnce ==
    /\ enqueued = received \o queue
    /\ Cardinality(IdsIn(enqueued)) = Len(enqueued)
    /\ IdsIn(received) \cap IdsIn(queue) = {}
    /\ Cardinality(IdsIn(wire)) = Len(wire)
    /\ IdsIn(wire) \subseteq IdsIn(Handled)
    /\ \A a, b \in 1 .. Len(wire) :
          a < b => PosIn(Handled, wire[a].id) < PosIn(Handled, wire[b].id)
    /\ usb.pc = "write" <=> is_some(usb.msg)
    /\ usb.pc = "write" => unwrap(usb.msg) = received[Len(received)]

\* Three messages were taken out, each once: the middle one met a closed
\* endpoint, the other two were written.
C17_Witness ==
    /\ Len(Handled) = 3
    /\ Written = <<Handled[1].id, Handled[3].id>>

\* The messages the queue held at the end of some session, the message whose
\* write ended it, and both together: everything accepted but not yet
\* written when a session ended.
UnwrittenAtDisconnect == usb.failed \cup usb.kept

C20_DisabledWaits ==
    (usb.pc = "write" /\ usb'.pc # "write")
        => \/ wire' # wire /\ usb'.pc = "receive"
           \/ wire' = wire /\ ~enabled /\ usb'.pc = "wait_connection"

\* C20: the transport survives a disconnect.  No write of a MIDI packet ends
\* the transport task; a write that finds the endpoint disabled ends the
\* session only, the transport waits for the connection, and once the host
\* is connected (and stays so) it takes messages out and writes them again.
C20_TransportRecovery ==
    /\ [](usb.pc \in {"wait_connection", "receive", "write"})
    /\ [][C20_DisabledWaits]_vars
    /\ ((usb.pc = "wait_connection" /\ enabled)
            ~> (usb.pc = "receive" \/ ~enabled \/ Halted))
    /\ ((usb.pc = "receive" /\ queue # <<>>)
            ~> (usb.pc = "write" \/ Halted))
    /\ ((usb.pc = "write" /\ enabled)
            ~> (usb.pc = "receive" \/ ~enabled \/ Halted))

\* Two sessions were ended by a disconnect and in a third the transport
\* wrote a packet.
C20_Witness ==
    /\ Cardinality(usb.failed) = 2
    /\ wire # <<>>
    /\ \A f \in usb.failed : f < wire[Len(wire)].id


\* The message the transport took out under a number
TakenOut(id) == CHOOSE e \in {received[i] : i \in 1 .. Len(received)} : e.id = id

\* Status high nibbles: 1001 Note On, 1000 Note Off, 1011 Control Change
HighNibbleOf(msg) ==
    IF msg.type = "Controller" THEN 11
    ELSE IF msg.on THEN 9 ELSE 8

\* C18: packet encoding.  Whatever u8 the MidiChannel was made with, the
\* packet written for a message has four bytes; its status byte has the high
\* nibble of the message's kind and, as low nibble, the channel masked to
\* four bits; data1 is the note or controller number, data2 the velocity or
\* controller value.
C18_PacketEncoding ==
    \A k \in 1 .. Len(wire) :
        LET e == TakenOut(wire[k].id)
            msg == e.m.msg
            packet == wire[k].packet
        IN  /\ Len(packet) = 4
            /\ packet[2] \div 16 = HighNibbleOf(msg)
            /\ packet[2] % 16 = e.given % 16
            /\ packet[3] = (IF msg.type = "Controller"
                            THEN msg.controller ELSE msg.note)
            /\ packet[4] = (IF msg.type = "Controller"
                            THEN msg.value ELSE msg.velocity)

\* A Note On sent on a channel made with 255 was written with status 0x9F.
C18_Witness ==
    \E k \in 1 .. Len(wire) :
        /\ TakenOut(wire[k].id).given = 255
        /\ wire[k].packet = <<8, 159, C4, 127>>


\* ---------------------------------------------------------------------------
\* Properties of the tasks together
\* ---------------------------------------------------------------------------

\* C21 as stated: no producer stays blocked because the endpoint is
\* disconnected.  It does not happen that from some moment on the endpoint
\* stays disconnected and the scanner, or the pedal monitor, stays suspended
\* in its send (on a device that has not halted).
C21_ProducersNeverBlocked ==
    /\ []<>(enabled \/ ~Suspended("scan") \/ Halted)
    /\ []<>(enabled \/ ~Suspended("pedal") \/ Halted)


\* the step in which a driver call of the strobe fails
StrobeFails == scan.pc = "strobe" /\ scan'.pc = "panicked"

\* what the scanner owns: its position and mask, the two timestamp arrays,
\* and the messages it has handed over
ScannerState ==
    <<scan, note_first, note_on, By(enqueued, "scan"), pending["scan"], mon, evs>>

\* C22: a bus error is fatal and never swallowed.  The step in which
\* set_output, read_all or set_input fails halts the scan task at that call:
\* it takes no mask, evaluates no row, changes no timestamp and hands over no
\* message; nothing the scanner owns changes ever after; and every row that
\* is evaluated is evaluated on the read of its own column's strobe, by a
\* scanner that has not failed.
C22_BusErrorFatal ==
    /\ [][StrobeFails =>
            /\ scan'.halt = <<scan'.halt[1]>> \o unwrap_Err
            /\ scan'.halt[1] \in {"set_output", "read_all", "set_input"}
            /\ scan' = [scan EXCEPT !.pc = "panicked", !.halt = scan'.halt]
            /\ UNCHANGED <<note_first, note_on, enqueued, queue, pending,
                           handed, mon, evs>>]_vars
    /\ [][scan.pc = "panicked" => UNCHANGED ScannerState]_vars
    /\ [][(scan.pc = "rows" /\ scan' # scan) =>
            /\ scan.halt = <<>>
            /\ key_active(scan.mask, matrix.row_pins[scan.j])
                  = (scan.j \in scan.closed)]_vars

\* The read of the second cycle's strobe failed while a key was sounding:
\* the scanner stopped there, the key's Note On the only message it sent.
C22_Witness ==
    /\ scan.pc = "panicked"
    /\ scan.halt[1] = "read_all"
    /\ scan.cycle = 2
    /\ \E c \in CellsOf("N") :
          /\ is_some(note_on[c.note])
          /\ ScanHanded(c.note) = <<NoteOnEv(c.note, c.velocity)>>


\* whether, in what a task did from its failure to the stop of the core, an
\* error was logged or printed before the halt
LoggedBeforeHalt(trace) ==
    \E a, b \in 1 .. Len(trace) :
        /\ a < b
        /\ trace[a] \in {"log_error", "probe_print"}
        /\ trace[b] = "halt"

\* the task ended in unwrap, which had received an Err
UnwrapGotErr ==
    /\ scan.halt # <<>>
    /\ scan.halt[1] \in {"scan_start", "set_output", "read_all", "set_input"}

\* C23 as stated: whenever unwrap receives an Err, a diagnostic is emitted
\* before the halt, however the panic handler is built.
C23_LogPrecedesHalt ==
    UnwrapGotErr => \A h \in PanicHandler : LoggedBeforeHalt(scan.halt \o h)


\* the scanner leaves the last cell of a pass (or the send that cell made)
LeavesLastCell ==
    /\ scan.pc \in {"rows", "send"}
    /\ scan.i = N_COLS /\ scan.j = N_ROWS
    /\ scan'.pc \notin {"rows", "send", "panicked"}

\* C24: cooperative yielding.  From the last cell of every pass the scanner
\* goes to the Timer, a suspension point, and a new pass begins only from
\* there, so it never makes two passes without yielding; and a scanner that
\* is running always reaches a suspension point (or the device halts), where
\* the transport and the pedal monitor can run.
C24_YieldsEveryPass ==
    /\ [][LeavesLastCell => scan'.pc = "timer"]_vars
    /\ [][scan'.cycle # scan.cycle =>
            /\ scan.pc = "timer" /\ ScanYielded
            /\ scan'.cycle = scan.cycle + 1]_vars
    /\ (~ScanYielded ~> (ScanYielded \/ Halted))

\* The scanner is in its third pass, and between its passes the pedal
\* monitor has sent a message and the transport has written the scanner's
\* and the pedal's.
C24_Witness ==
    /\ scan.cycle = 3
    /\ \E a, b \in 1 .. Len(wire) :
          /\ TakenOut(wire[a].id).by = "scan"
          /\ TakenOut(wire[b].id).by = "pedal"


\* cell a comes before cell b in scan's order: by column, then by row
CellBefore(a, b) == a[1] < b[1] \/ (a[1] = b[1] /\ a[2] < b[2])

\* The event the reads alone call for at a cell: what the cell reads now and
\* what the reads before told about its key.
ExpectedEvent(cell, active, m) ==
    CASE cell.kind = "N" /\ active /\ m.ph # "Down" -> "on"
      [] cell.kind = "N" /\ ~active /\ m.ph = "Down" -> "off"
      [] cell.kind = "N1" /\ ~active /\ m.ph = "Both" -> "off"
      [] cell.kind = "N2" /\ active /\ m.ph = "First" -> "on"
      [] OTHER -> "none"

\* The scanner's messages of the cycle under way are those of the cells that
\* sent, in scan's order of the cells, and the queue keeps that order.
C25_CellOrder ==
    LET em == scan.emitted
        H == HandedBy("scan")
    IN  /\ \A a, b \in 1 .. Len(em) : a < b => CellBefore(em[a], em[b])
        /\ Len(em) <= Len(H)
        /\ \A k \in 1 .. Len(em) :
              H[Len(H) - Len(em) + k].m.msg.note
                  = matrix.keymap[em[k][2]][em[k][1]].note
        /\ Increasing(Ids(H))
        /\ By(received \o queue, "scan") = By(enqueued, "scan")

\* One cell's evaluation hands over the event its reads call for, and only
\* that, whether or not the send then suspends.
C25_EventFromReads ==
    (scan.pc = "rows" /\ scan' # scan /\ scan'.pc # "panicked") =>
        LET cell == matrix.keymap[scan.j][scan.i]
            active == scan.j \in scan.closed
            ev == ExpectedEvent(cell, active, mon[cell.note])
            H == HandedBy("scan")'
        IN  /\ handed' = handed + (IF ev = "none" THEN 0 ELSE 1)
            /\ ev # "none" =>
                  /\ H[Len(H)].m.msg.note = cell.note
                  /\ H[Len(H)].m.msg.on = (ev = "on")
                  /\ scan'.emitted = Append(scan.emitted, <<scan.i, scan.j>>)

C26_OneTransaction ==
    /\ bus.locks <= 1
    /\ Cardinality(bus.handles) <= 1
    /\ bus.locks = 1 => (bus.pc = "transfer" /\ bus.handles = {Head(bus.todo)})
    /\ bus.pc \in {"call", "idle"} => (bus.handles = {} /\ bus.locks = 0)
    /\ ScanYielded => (bus.pc = "idle" /\ bus.handles = {} /\ bus.locks = 0)
    /\ bus.pc # "idle" => scan.pc = "strobe"

\* read_all has read the first extender and dropped its handle, and a
\* transfer with the second is in flight, while a pedal message waits in the
\* queue.
C26_Witness ==
    /\ bus.call = "read_all"
    /\ bus.pc = "transfer"
    /\ bus.handles = {1}
    /\ Len(bus.todo) = 1
    /\ queue # <<>>


\* C27: pedal polarity.  Every message the pedal monitor hands over is a
\* Controller message with the controller number of the configured pedal
\* (sustain, 64) on channel 0; a normally-open pedal's message has value 64
\* when the pin was found low and 0 when it was found high, a normally-closed
\* pedal's 0 when low and 64 when high; and every pedal message in the
\* pipeline is such a message.
C27_PedalPolarity ==
    /\ [][Len(HandedBy("pedal"))' > Len(HandedBy("pedal")) =>
            LET q == HandedBy("pedal")'
                e == q[Len(q)]
            IN  /\ Len(q) = Len(HandedBy("pedal")) + 1
                /\ e.m.msg.type = "Controller"
                /\ e.m.msg.controller = 64
                /\ e.given = 0
                /\ e.m.channel = 0
                /\ ped.norm_state = "NO" =>
                      e.m.msg.value = (IF pedal_pin THEN 0 ELSE 64)
                /\ ped.norm_state = "NC" =>
                      e.m.msg.value = (IF pedal_pin THEN 64 ELSE 0)]_vars
    /\ [](\A k \in 1 .. Len(HandedBy("pedal")) :
            LET e == HandedBy("pedal")[k]
            IN  /\ e.m.msg.type = "Controller"
                /\ e.m.msg.controller = 64
                /\ e.m.channel = 0
                /\ e.m.msg.value \in {0, 64})
    /\ [][ped.norm_state' = ped.norm_state]_vars

\* A normally-closed pedal has sent 0 for its pin low and then 64 for its
\* pin high, and both were written to the host.
C27_Witness ==
    /\ ped.norm_state = "NC"
    /\ Len(wire) = 2
    /\ received[1].by = "pedal" /\ received[1].m.msg.value = 0
    /\ received[2].by = "pedal" /\ received[2].m.msg.value = 64
    /\ wire[1].packet = <<8, 176, 64, 0>>
    /\ wire[2].packet = <<8, 176, 64, 64>>


-----------------------------------------------------------------------------
(* The two-switch key's timestamps *)

\* the cell scan is at, and whether its row was closed at the strobe
CellNow == matrix.keymap[scan.j][scan.i]
ClosedNow == scan.j \in scan.closed

\* scan evaluates the cell it is at, and does not panic in it
CellStep == scan.pc = "rows" /\ scan' # scan /\ scan'.pc # "panicked"

\* The step in which a two-switch note begins to sound: its second contact
\* is evaluated active while its first-touch timestamp is set and the note
\* is not sounding.
ToSounding ==
    /\ CellStep
    /\ CellNow.kind = "N2"
    /\ ClosedNow
    /\ is_some(note_first[CellNow.note])
    /\ is_none(note_on[CellNow.note])

\* the newest message the scanner has handed over
NewestHanded == HandedBy("scan")[Len(HandedBy("scan"))]

\* the step hands exactly one message, a Note On or a Note Off of the note
HandsNote(note, on) ==
    /\ handed' = handed + 1
    /\ Len(HandedBy("scan"))' = Len(HandedBy("scan")) + 1
    /\ NewestHanded'.m.msg.type = "Note"
    /\ NewestHanded'.m.msg.note = note
    /\ NewestHanded'.m.msg.on = on

\* the step hands nothing over
HandsNothing == handed' = handed /\ HandedBy("scan")' = HandedBy("scan")

\* C28 as stated: on the transition to Sounding the Note On is handed over,
\* and immediately after it the note's first-touch timestamp is empty and
\* its sounding timestamp is set.
C28_FirstTouchCleared ==
    [][ToSounding =>
          /\ HandsNote(CellNow.note, TRUE)
          /\ is_none(note_first'[CellNow.note])
          /\ is_some(note_on'[CellNow.note])]_vars

\* C28, amended: on the transition to Sounding the Note On is handed over
\* and the sounding timestamp is set to the time of the evaluation, while
\* the first-touch timestamp is kept as it was; no other note's timestamps
\* change; and a two-switch note that is sounding always has its first-touch
\* timestamp set (it is cleared only by the release).
C28_FirstTouchKept ==
    /\ [][ToSounding =>
            /\ HandsNote(CellNow.note, TRUE)
            /\ note_first' = note_first
            /\ is_some(note_first'[CellNow.note])
            /\ note_on' = [note_on EXCEPT ![CellNow.note] = Some(now)]]_vars
    /\ [](\A c \in CellsOf("N2") :
            is_some(note_on[c.note]) => is_some(note_first[c.note]))

\* A two-switch note has just begun to sound: its Note On is the only event
\* handed over, its sounding timestamp is the present time and its
\* first-touch timestamp is an earlier one.
C28_Witness ==
    \E c \in CellsOf("N2") :
        /\ mon[c.note].ph = "Both"
        /\ Len(ScanHanded(c.note)) = 1
        /\ ScanHanded(c.note)[1].msg.on
        /\ note_on[c.note] = Some(now)
        /\ is_some(note_first[c.note])
        /\ LessU64(unwrap(note_first[c.note]), now)


\* The step in which the first contact of a two-switch note is evaluated
\* inactive
FirstContactOpen == CellStep /\ CellNow.kind = "N1" /\ ~ClosedNow

\* the rows of the cells of a kind for the note
RowsOf(kind, note) ==
    {j \in 1 .. N_ROWS : \E i \in 1 .. N_COLS :
        matrix.keymap[j][i].kind = kind /\ matrix.keymap[j][i].note = note}

\* C29: the release rule for two-switch notes.  The evaluation of a sounding
\* note's first-contact cell as inactive hands over the note's Note Off and
\* leaves both of the note's timestamps empty; that of a first-contact cell
\* of a note not sounding hands over nothing; no other step of the scanner
\* hands over a Note Off of a two-switch note or ends its sounding: the
\* evaluation of the second-contact cell as inactive hands over nothing and
\* changes no timestamp, whatever the first contact reads.  So the Note Off
\* is handed over in the first cycle in which the first contact reads
\* inactive, once: after it the note is not sounding.  (A scanner that
\* panicked computing the velocity never made the note sound.)
C29_ReleaseRule ==
    /\ [][(FirstContactOpen /\ is_some(note_on[CellNow.note])) =>
            /\ HandsNote(CellNow.note, FALSE)
            /\ is_none(note_first'[CellNow.note])
            /\ is_none(note_on'[CellNow.note])]_vars
    /\ [][(FirstContactOpen /\ is_none(note_on[CellNow.note])) =>
            /\ HandsNothing
            /\ is_none(note_first'[CellNow.note])
            /\ note_on' = note_on]_vars
    /\ [][(CellStep /\ CellNow.kind = "N2" /\ ~ClosedNow) =>
            /\ HandsNothing
            /\ note_first' = note_first
            /\ note_on' = note_on]_vars
    /\ [][\A c \in CellsOf("N1") :
            (is_some(note_on[c.note]) /\ ~(FirstContactOpen /\ CellNow = c)) =>
                /\ is_some(note_on'[c.note])
                /\ ScanHanded(c.note)' = ScanHanded(c.note)]_vars
    /\ [](\A c \in CellsOf("N1") :
            /\ (mon[c.note].ph = "Both" /\ scan.pc # "panicked") =>
                  /\ is_some(note_on[c.note])
                  /\ Len(evs[c.note]) = 1 /\ evs[c.note][1].msg.on
            /\ mon[c.note].ph = "Released" =>
                  /\ is_none(note_on[c.note]) /\ is_none(note_first[c.note])
                  /\ Len(evs[c.note]) = 2 /\ ~evs[c.note][2].msg.on)

\* A sounding note whose second contact was evaluated open while its first
\* contact was closed in the same read: the note still sounds and only its
\* Note On was handed over.
C29_Witness ==
    \E c \in CellsOf("N1") :
        /\ mon[c.note].ph = "Both"
        /\ mon[c.note].k >= 2
        /\ scan.pc = "timer"
        /\ N_COLS = 1
        /\ RowsOf("N1", c.note) \subseteq scan.closed
        /\ RowsOf("N2", c.note) \cap scan.closed = {}
        /\ is_some(note_on[c.note])
        /\ Len(ScanHanded(c.note)) = 1


\* C30: a Note On of a two-switch note is handed over only in a step that
\* finds the note's first-touch timestamp set, and that step is the
\* evaluation of the note's second-contact cell as active.  The first-touch
\* timestamp is empty exactly when the first contact has not read active
\* since the note was last released (or abandoned, or ever); a
\* second-contact cell evaluated active then hands over nothing and changes
\* no timestamp.
C30_NoteOnNeedsFirstTouch ==
    /\ [][(CellStep /\ CellNow.kind = "N2" /\ ClosedNow
             /\ is_none(note_first[CellNow.note])) =>
            /\ HandsNothing
            /\ note_first' = note_first
            /\ note_on' = note_on]_vars
    /\ [][\A c \in CellsOf("N2") :
            (/\ Len(ScanHanded(c.note))' > Len(ScanHanded(c.note))
             /\ NewestHanded'.m.msg.on) =>
                /\ is_some(note_first[c.note])
                /\ scan.pc = "rows" /\ CellNow = c /\ ClosedNow]_vars
    /\ [](\A c \in CellsOf("N2") :
            is_none(note_first[c.note])
                <=> mon[c.note].ph \in {"Idle", "Released", "Aborted"})

\* A released key whose second contact still read closed in the cycle of the
\* release, after its first contact read open: the second-contact cell was
\* evaluated active with no first-touch timestamp, and nothing followed the
\* Note Off.
C30_Witness ==
    \E c \in CellsOf("N2") :
        /\ N_COLS = 1
        /\ mon[c.note].ph = "Released"
        /\ scan.pc = "timer"
        /\ scan.closed = RowsOf("N2", c.note)
        /\ \A j \in RowsOf("N1", c.note) : \A k \in RowsOf("N2", c.note) : j < k
        /\ Len(ScanHanded(c.note)) = 2
        /\ ~ScanHanded(c.note)[2].msg.on
        /\ is_none(note_first[c.note]) /\ is_none(note_on[c.note])


-----------------------------------------------------------------------------
(* The scanner's events note by note *)

\* C31: per-note alternation.  For every note of the keymap, also one named
\* by several cells, the events the scanner has handed over for the note
\* alternate Note On, Note Off, Note On, ... beginning with Note On, and the
\* note's sounding timestamp is set exactly when the last of them is a
\* Note On.
C31_Alternation ==
    \A n \in KeymapNotes(matrix) :
        /\ \A k \in 1 .. Len(ScanHanded(n)) :
              ScanHanded(n)[k].msg.on = (k % 2 = 1)
        /\ is_some(note_on[n]) <=> (Len(ScanHanded(n)) % 2 = 1)

\* A note named by two cells sounded, was ended by the cell that read
\* inactive, and sounds again.
C31_Witness ==
    /\ matrix = MatSame2
    /\ Len(ScanHanded(C4)) = 3
    /\ is_some(note_on[C4])


-----------------------------------------------------------------------------
(* The column strobe *)

\* whether the pin of a transparent address is configured as an output
IsOutput(addr) ==
    LET pin == Resolve(tp, addr)
    IN  IF pin.kind = "Extended" THEN pin.loc_pin \in ext_dir[pin.ext_id]
        ELSE pin.idx \in pins_dir

\* the columns whose pin is configured as an output
ColumnsOut == {i \in 1 .. N_COLS : IsOutput(matrix.col_pins[i])}

\* the strobe's calls that have returned, for the column scan is at
CallsReturned ==
    IF bus.done = <<scan.cycle, scan.i>> THEN Len(StrobeCalls)
    ELSE IF bus.pc = "idle" THEN bus.step ELSE bus.step - 1

\* C32: the column strobe protocol.  The columns are strobed in col_pins
\* order, each once in a cycle; the column's pin is an output from the return
\* of set_output to the return of set_input and the one read_all of the
\* strobe is made between the two; the rows of the column are evaluated only
\* after all three calls have returned; at most one column pin is an output
\* at any time, and it is the pin of the column being strobed; and at every
\* suspension point of scan every column pin is an input.
C32_StrobeProtocol ==
    /\ [](Cardinality(ColumnsOut) <= 1)
    /\ [](ColumnsOut \subseteq {scan.i})
    /\ [](ScanYielded => ColumnsOut = {})
    /\ []((scan.pc = "strobe" /\ CallsReturned \in {1, 2})
             <=> (ColumnsOut = {scan.i} /\ ~Halted))
    /\ [](bus.call = "read_all" => (ColumnsOut = {scan.i} /\ bus.step = 2))
    /\ [](scan.pc \in {"rows", "send"} =>
             (bus.done = <<scan.cycle, scan.i>> /\ bus.pc = "idle"))
    /\ [][bus'.step > bus.step => bus'.call = StrobeCalls[bus'.step]]_vars
    /\ [][scan'.i # scan.i =>
             \/ /\ scan'.i = scan.i + 1 /\ scan.j = N_ROWS
                /\ scan.pc \in {"rows", "send"} /\ scan'.pc = "strobe"
             \/ scan'.i = 1 /\ scan.i = N_COLS /\ scan.pc = "timer"]_vars
    /\ [](scan.pc = "timer" => (scan.i = N_COLS /\ scan.j = N_ROWS))

\* The second column of a matrix is being read: its pin is the one output,
\* and the first column's key was found closed.
C32_Witness ==
    /\ N_COLS = 2
    /\ scan.i = 2
    /\ bus.call = "read_all"
    /\ ColumnsOut = {2}
    /\ is_some(note_on[C4])


\* the cell scan is at is evaluated as active by the code
ActiveNow == key_active(scan.mask, matrix.row_pins[scan.j])

\* C33: cell activity.  For every value read while a column is strobed and
\* every row, the cell is active exactly if the bit of the row's pin in the
\* value read is 0, whatever the other bits of the value are, the strobed
\* column's among them; and the evaluation of the cell acts on that.
C33_CellActivity ==
    /\ [](scan.pc \in {"rows", "send"} =>
            \A j \in 1 .. N_ROWS :
                key_active(scan.mask, matrix.row_pins[j])
                    <=> matrix.row_pins[j] \notin scan.input)
    /\ [][CellStep =>
            /\ ActiveNow <=> matrix.row_pins[scan.j] \notin scan.input
            /\ mon' = [mon EXCEPT ![CellNow.note] =
                         mon_step(CellNow,
                                  matrix.row_pins[scan.j] \notin scan.input,
                                  @, now)]]_vars

\* Every bit of the value read was 1 except that of the second row's pin and
\* that of the strobed column: only the second row's key sounds.
C33_Witness ==
    /\ matrix = MatFixed2
    /\ scan.pc = "timer"
    /\ scan.input = U64Bits \ {matrix.row_pins[2]}
    /\ is_none(note_on[C4])
    /\ is_some(note_on[D4])


-----------------------------------------------------------------------------
(* The excluded pins of the extenders *)

\* GPA7 and GPB7 as local pins of an extender
UnsafeLocal == {PORT_A + 7, PORT_B + 7}

\* C34: with exclusion enabled, construction leaves exactly GPA7 and GPB7 of
\* every extender configured as outputs (and no on-board pin), and after any
\* sequence of set_input, set_output and set_pull calls on usable addresses
\* both are still outputs: no such call resolves to either of them, whether
\* it succeeds or fails.
C34_UnsafeStayOutputs ==
    /\ tp.disable_unsafe_pins
    /\ last.op = "new" =>
          /\ \A i \in Extenders : ext_dir[i] = {7, 15}
          /\ pins_dir = {}
    /\ \A i \in Extenders : UnsafeLocal \subseteq ext_dir[i]
    /\ last.op # "new" =>
          /\ last.result # "InvalidPin"
          /\ last.target.kind = "Extended" =>
                last.target.loc_pin \notin UnsafeLocal

\* The two usable addresses around GPA7 of the second extender were set as
\* inputs: local pins 6 and 8 are inputs, 7 is still an output.
C34_Witness ==
    /\ nops = 2
    /\ last.op = "set_input" /\ last.addr = 21 /\ last.result = "Ok"
    /\ last.target = [kind |-> "Extended", ext_id |-> 1, loc_pin |-> 8]
    /\ ext_dir[1] = {7, 15}
    /\ ext_dir[0] = {7, 15}


\* scan evaluates the cell it is at (and may panic in it)
CellEvaluated == scan.pc = "rows" /\ scan' # scan

\* C35: per-note state isolation.  The evaluation of a cell changes no
\* timestamp of any note but the cell's and hands over no event of any other
\* note; the evaluation of a NOP cell, active or not, changes no timestamp
\* and hands over nothing; only the evaluation of a cell changes a
\* timestamp or hands over a scanner's event; and when scan enters its loop
\* every slot is empty.
C35_NoteIsolation ==
    /\ [][CellEvaluated =>
            /\ \A n \in KeymapNotes(matrix) \ {CellNow.note} :
                  /\ note_first'[n] = note_first[n]
                  /\ note_on'[n] = note_on[n]
                  /\ ScanHanded(n)' = ScanHanded(n)
            /\ handed' \in {handed, handed + 1}
            /\ handed' # handed =>
                  \E n \in {CellNow.note} :
                      Len(ScanHanded(n))' = Len(ScanHanded(n)) + 1]_vars
    /\ [][(CellEvaluated /\ CellNow.kind = "NOP") =>
            /\ note_first' = note_first
            /\ note_on' = note_on
            /\ HandsNothing]_vars
    /\ [][(~CellEvaluated /\ scan.pc # "start") =>
            /\ note_first' = note_first
            /\ note_on' = note_on
            /\ HandedBy("scan")' = HandedBy("scan")]_vars
    /\ [][scan.pc = "start" =>
            \A n \in KeymapNotes(matrix) :
                is_none(note_first'[n]) /\ is_none(note_on'[n])]_vars

\* The NOP cell of the second column was evaluated active while the first
\* contact of the key in the first column had been seen: the key's
\* first-touch timestamp is as it was and nothing was handed over.
C35_Witness ==
    /\ N_COLS = 2 /\ N_ROWS = 2
    /\ matrix.keymap[1][2].kind = "NOP"
    /\ scan.i = 2 /\ scan.j = 2 /\ scan.pc = "rows"
    /\ 1 \in scan.closed
    /\ is_some(note_first[D4])
    /\ handed = 0


\* C36: no retrigger without release.  While a two-switch note sounds, the
\* evaluation of its second-contact cell, active or inactive, hands over
\* nothing and leaves the note sounding with its first-touch timestamp, so
\* the second contact opening and closing again adds no event to the one
\* Note On; and a Note On of the note is handed over only when the note is
\* not sounding, which after a first Note On means that the first contact
\* has read inactive and the Note Off was handed over in between.
C36_NoRetrigger ==
    /\ [][(CellStep /\ CellNow.kind = "N2"
             /\ is_some(note_on[CellNow.note])) =>
            /\ HandsNothing
            /\ note_first' = note_first
            /\ is_some(note_on'[CellNow.note])]_vars
    /\ [][\A c \in CellsOf("N2") :
            (/\ Len(ScanHanded(c.note))' > Len(ScanHanded(c.note))
             /\ NewestHanded'.m.msg.on) =>
                /\ is_none(note_on[c.note])
                /\ mon[c.note].ph = "First"
                /\ ScanHanded(c.note) # <<>> =>
                      ~ScanHanded(c.note)[Len(ScanHanded(c.note))].msg.on]_vars
    /\ [](\A c \in CellsOf("N2") :
            (mon[c.note].ph = "Both" /\ mon[c.note].second # "closed") =>
                /\ is_some(note_on[c.note])
                /\ Len(evs[c.note]) = 1
                /\ evs[c.note][1].msg.on)

\* A sounding note whose second contact read open in one cycle and closed
\* again in the next, its first contact closed throughout: still only the
\* one Note On.
C36_Witness ==
    \E c \in CellsOf("N2") :
        /\ mon[c.note].ph = "Both"
        /\ mon[c.note].second = "reclosed"
        /\ mon[c.note].k = 3
        /\ Len(ScanHanded(c.note)) = 1
        /\ note_on[c.note] = Some(now)


-----------------------------------------------------------------------------
(* The transport across disconnections *)

\* q with only the messages whose number is in ids, in q's order
Only(q, ids) == SelectSeq(q, LAMBDA e : e.id \in ids)

-----------------------------------------------------------------------------
(* The pedal monitor's events *)

\* the values of the pedal's Controller messages handed over, oldest first
PedalValues ==
    [k \in 1 .. Len(HandedBy("pedal")) |-> HandedBy("pedal")[k].m.msg.value]

\* the value that stands for the pin's present level
ValueOfLevel ==
    IF ped.norm_state = "NO" THEN (IF pedal_pin THEN 0 ELSE 64)
    ELSE (IF pedal_pin THEN 64 ELSE 0)

\* C38: pedal event alternation.  The values the pedal monitor hands over
\* alternate between the on value and the off value beginning with the on
\* value, no two in a row equal, also across a send that suspends on the
\* full queue; and whenever the monitor waits for the pin to change (for low
\* with the pin high, for high with the pin low) the last value handed over,
\* if there is one, is the value of the pin's present level.
C38_PedalAlternation ==
    /\ \A k \in 1 .. Len(PedalValues) :
          PedalValues[k] = IF (k % 2 = 1) = (ped.norm_state = "NO")
                           THEN 64 ELSE 0
    /\ \A k \in 1 .. (Len(PedalValues) - 1) :
          PedalValues[k] # PedalValues[k + 1]
    /\ (ped.pc = "wait_for_low" /\ pedal_pin /\ PedalValues # <<>>) =>
          PedalValues[Len(PedalValues)] = ValueOfLevel
    /\ (ped.pc = "wait_for_high" /\ ~pedal_pin) =>
          /\ PedalValues # <<>>
          /\ PedalValues[Len(PedalValues)] = ValueOfLevel
    /\ ped.pc \in {"wait_for_low", "send_off"} <=> Len(PedalValues) % 2 = 0

\* The monitor's fourth message is held by its send, suspended on the full
\* queue, while the pedal has moved again.
C38_Witness ==
    /\ ped.norm_state = "NC"
    /\ Suspended("pedal")
    /\ PedalValues = <<0, 64, 0, 64>>
    /\ ~pedal_pin


-----------------------------------------------------------------------------
(* The reconnect wrapper *)

\* C39: midi_task runs one MIDI session to completion in every iteration of
\* its loop.  After it has logged Connected its next step is into the
\* session, which begins suspended in the queue's receive, and it logs
\* Disconnected only after a session whose write met the disabled endpoint;
\* so it never goes round its loop without a suspension point.
C39_SessionEveryIteration ==
    /\ [][(usb.pc = "task_connected" /\ usb' # usb) =>
            usb'.pc = "receive"]_vars
    /\ [][(usb'.pc = "task_loop" /\ usb' # usb) =>
            (usb.pc = "write" /\ ~enabled)]_vars

=============================================================================
